---- MODULE Spec2Model ----
(***************************************************************************)
(* Blender-Tools-for-DSCS: the material record codecs of MaterialReader    *)
(* (shader-uniform records, unknown-component records, the shader          *)
(* identifier text form, read()), and the triangle-strip decoder of the    *)
(* intermediate-format assembler.                                          *)
(*                                                                         *)
(* Bytes are naturals 0..255, byte strings are sequences of bytes, text is *)
(* a sequence of one-character strings.  Byte offsets of the Python source *)
(* are 0-based, sequence positions here are 1-based: data[16] of the       *)
(* source is data[17] here.                                                *)
(***************************************************************************)
EXTENDS Integers, Sequences, FiniteSets, TLC

VARIABLES
    data,        \* codec harness: the byte string handed to a decoder
    decoded,     \* codec harness: what the decoder returned or raised
    encoded,     \* codec harness: what the encoder returned or raised
    redecoded,   \* codec harness: the decoder applied to `encoded`
    pc,          \* codec harness: position in the decode/encode sequence
    io_stream,   \* MaterialReader: the bytes of the stream the reader was built on
    io_pos,      \* MaterialReader: the stream cursor
    self,        \* MaterialReader: the attributes of the reader object
    result,      \* MaterialReader: how the last call on the reader ended
    reader_calls,\* MaterialReader: the methods called on the reader, in order
    idxs,        \* triangle_strips_to_polys: the index strip
    i,           \* triangle_strips_to_polys: the enumerate counter of the loop
    triangles,   \* triangle_strips_to_polys: the triangles appended so far
    strip_pc,    \* triangle_strips_to_polys: "loop" or "returned"
    polys,       \* triangles_to_polys: the triangles it returned
    mesh,             \* add_meshes: the reader's mesh being converted
    current_IF_mesh,  \* add_meshes: the MeshData being filled
    vertex_i,         \* add_meshes: the enumerate counter of the vertex loop
    mesh_pc,          \* add_meshes: position in the function
    skeleton,         \* model_data.skeleton
    ar,               \* add_anims: the animation reader of the clip being converted
    fcurves,          \* add_anims: the six dicts of frames and values, keyed by bone
    block_k,          \* add_anims: how many keyframe blocks were expanded
    anim_pc,          \* add_anims: position in the function
    ad,               \* add_anims: the Animation of the clip
    importer,         \* import_skeleton or import_rest_pose_skeleton
    list_of_bones,    \* skeleton import: the dict from bone name to created bone
    edit_bones,       \* skeleton import: the armature's bones, in creation order
    relation_i,       \* skeleton import: the enumerate counter of the relation loop
    import_pc,        \* skeleton import: position in the function
    gen_pc,           \* generate_intermediate_format_from_files: the next step
    open_files,       \* ... the files that are open
    readers_done,     \* ... the readers whose read() has returned
    anim_queue,       \* ... the directory entries not yet visited
    imported_animdata,\* ... the keys of the dict of animation readers
    steps_done,       \* ... the assembly steps applied to model_data, in order
    gen_result,       \* ... how the call ended
    material_names,   \* add_materials: imported_namedata.material_names
    material_data,    \* add_materials: imported_geomdata.material_data
    materials,        \* add_materials: model_data.materials
    model_unknown_data, \* add_materials: model_data.unknown_data, as its items
    material_i,       \* add_materials: the enumerate counter of the material loop
    materials_pc      \* add_materials: position in the function

codecVars == <<data, decoded, encoded, redecoded, pc>>

readerVars == <<io_stream, io_pos, self, result, reader_calls>>

stripVars == <<idxs, i, triangles, strip_pc, polys>>

meshVars == <<mesh, current_IF_mesh, vertex_i, mesh_pc>>

skelVars == <<skeleton>>

\* the variables of the intermediate-format assembler and of the importer
animVars == <<ar, fcurves, block_k, anim_pc, ad>>

importVars == <<importer, list_of_bones, edit_bones, relation_i, import_pc>>

genVars == <<gen_pc, open_files, readers_done, anim_queue, imported_animdata,
             steps_done, gen_result>>

matVars == <<material_names, material_data, materials, model_unknown_data,
             material_i, materials_pc>>

assemblyVars == <<meshVars, skelVars, animVars, importVars, genVars, matVars>>

vars == <<data, decoded, encoded, redecoded, pc, io_stream, io_pos, self, result,
          reader_calls,
          idxs, i, triangles, strip_pc, polys,
          mesh, current_IF_mesh, vertex_i, mesh_pc, skeleton,
          ar, fcurves, block_k, anim_pc, ad,
          importer, list_of_bones, edit_bones, relation_i, import_pc,
          gen_pc, open_files, readers_done, anim_queue, imported_animdata,
          steps_done, gen_result,
          material_names, material_data, materials, model_unknown_data,
          material_i, materials_pc>>

-----------------------------------------------------------------------------
(* Outcomes of a call: a returned value, or a raised exception.            *)

Returned(v) == [exc |-> "None", val |-> <<v>>]

Raised(e) == [exc |-> e, val |-> <<>>]

NotRun == [exc |-> "NotRun", val |-> <<>>]

\* Python values whose type changes over an attribute's life carry their type
NoneValue == [kind |-> "None", v |-> <<>>]

Bytes(b) == [kind |-> "bytes", v |-> b]

Str(t) == [kind |-> "str", v |-> t]

List(l) == [kind |-> "list", v |-> l]

\* a dict is its items in insertion order, each <<key, value>>
Dict(items) == [kind |-> "dict", v |-> items]

IsReturned(r) == r.exc = "None"

IsRaised(r) == r.exc \notin {"None", "NotRun"}

Value(r) == r.val[1]

-----------------------------------------------------------------------------
(* Each specification below exercises one part of the program; the         *)
(* variables of the other parts stay at these values.                      *)

\* no codec call is in progress
CodecIdle ==
    /\ data = <<>>
    /\ decoded = NotRun
    /\ encoded = NotRun
    /\ redecoded = NotRun
    /\ pc = "idle"

\* no reader was built
ReaderIdle ==
    /\ io_stream = <<>>
    /\ io_pos = 0
    /\ self = NoneValue
    /\ result = NotRun
    /\ reader_calls = <<>>

\* no strip is being decoded
StripIdle ==
    /\ idxs = <<>>
    /\ i = 0
    /\ triangles = <<>>
    /\ strip_pc = "idle"
    /\ polys = <<>>

\* MeshData()
MeshData == [vertices |-> <<>>, vertex_groups |-> <<>>, polygons |-> <<>>,
             material_id |-> NoneValue]

\* Skeleton(); unknown_data is the set of its keys
Skeleton == [bone_names |-> <<>>, inverse_bind_pose_matrices |-> <<>>,
             rest_pose |-> <<>>, bone_relations |-> <<>>, unknown_data |-> {}]

\* no mesh is being converted
MeshIdle ==
    /\ mesh = NoneValue
    /\ current_IF_mesh = MeshData
    /\ vertex_i = 0
    /\ mesh_pc = "idle"

\* the skeleton is as constructed
SkelIdle ==
    /\ skeleton = Skeleton

\* Animation()
Animation == [rotations |-> <<>>, locations |-> <<>>, scales |-> <<>>,
              playback_rate |-> 24]

\* no clip is being converted
AnimIdle ==
    /\ ar = NoneValue
    /\ fcurves = NoneValue
    /\ block_k = 0
    /\ anim_pc = "idle"
    /\ ad = Animation

\* no skeleton is being imported into the host
ImportIdle ==
    /\ importer = "idle"
    /\ list_of_bones = <<>>
    /\ edit_bones = <<>>
    /\ relation_i = 0
    /\ import_pc = "idle"

\* generate_intermediate_format_from_files was not called
GenIdle ==
    /\ gen_pc = "idle"
    /\ open_files = {}
    /\ readers_done = {}
    /\ anim_queue = <<>>
    /\ imported_animdata = {}
    /\ steps_done = <<>>
    /\ gen_result = NotRun

\* add_materials was not called
MatIdle ==
    /\ material_names = <<>>
    /\ material_data = <<>>
    /\ materials = <<>>
    /\ model_unknown_data = <<>>
    /\ material_i = 0
    /\ materials_pc = "idle"

AssemblyIdle ==
    /\ MatIdle
    /\ MeshIdle
    /\ SkelIdle
    /\ AnimIdle
    /\ ImportIdle
    /\ GenIdle

-----------------------------------------------------------------------------
(* Byte-string helpers: slices, reversal, concatenation.                   *)

\* data[a:b] of Python for 0 <= a (0-based, b exclusive), clipped to the length
Slice(s, a, b) == SubSeq(s, a + 1, IF b < Len(s) THEN b ELSE Len(s))

\* s[::-1]
Reversed(s) == [k \in 1..Len(s) |-> s[Len(s) + 1 - k]]

RECURSIVE Join(_)
\* b''.join(parts)
Join(parts) == IF parts = <<>> THEN <<>> ELSE Head(parts) \o Join(Tail(parts))

-----------------------------------------------------------------------------
(* struct.unpack / struct.pack, native little-endian layout.               *)

\* struct.unpack('H', b)[0]
UnpackH(b) == b[1] + 256 * b[2]

\* struct.pack('H', v)
PackH(v) == <<v % 256, (v \div 256) % 256>>

\* struct.unpack('I', b)[0]
UnpackI(b) == b[1] + 256 * b[2] + 65536 * b[3] + 16777216 * b[4]

\* struct.pack('I', v)
PackI(v) == <<v % 256, (v \div 256) % 256, (v \div 65536) % 256, (v \div 16777216) % 256>>

\* A float32 bit pattern is a signalling NaN: exponent all ones, quiet bit
\* (mantissa bit 22) clear, mantissa non-zero.
IsSignallingNaN(f) == f.exp = 255 /\ f.man # 0 /\ f.man < 4194304

\* struct.unpack('f', b)[0]: the float32 whose IEEE-754 fields the four bytes
\* hold, widened to a Python float.  The widening is a hardware conversion;
\* where the platform quiets a signalling NaN (quiet = TRUE) the quiet bit of
\* the mantissa comes back set.
UnpackF(b, quiet) ==
    LET f == [sign |-> b[4] \div 128,
              exp  |-> (b[4] % 128) * 2 + b[3] \div 128,
              man  |-> (b[3] % 128) * 65536 + b[2] * 256 + b[1]]
    IN  IF quiet /\ IsSignallingNaN(f) THEN [f EXCEPT !.man = f.man + 4194304] ELSE f

\* struct.pack('f', v): the float narrowed back to its four bytes
PackF(f) ==
    <<f.man % 256,
      (f.man \div 256) % 256,
      (f.exp % 2) * 128 + (f.man \div 65536),
      f.sign * 128 + f.exp \div 2>>

\* datum == 0 for a float: plus or minus zero
FloatIsZero(f) == f.exp = 0 /\ f.man = 0

-----------------------------------------------------------------------------
(* MaterialReader.shader_uniform_from_ids and its inverse.                 *)

shader_uniform_from_ids ==
    (50 :> "DiffuseTextureID") @@ (51 :> "DiffuseColour") @@
    (53 :> "NormalMapTextureID") @@ (54 :> "Bumpiness") @@
    (56 :> "SpecularStrength") @@ (57 :> "SpecularPower") @@
    (58 :> "CubeMapTextureID") @@ (59 :> "ReflectionStrength") @@
    (60 :> "FresnelExp") @@ (61 :> "FresnelMin") @@
    (62 :> "FuzzySpecColor") @@ (63 :> "SubColor") @@
    (64 :> "SurfaceColor") @@ (65 :> "Rolloff") @@
    (66 :> "VelvetStrength") @@ (67 :> "UnknownTextureSlot1") @@
    (68 :> "OverlayTextureID") @@ (69 :> "UnknownTextureSlot2") @@
    (70 :> "OverlayBumpiness") @@ (71 :> "OverlayStrength") @@
    (72 :> "ToonTextureID") @@ (75 :> "Curvature") @@
    (76 :> "GlassStrength") @@ (77 :> "UpsideDown") @@
    (79 :> "ParallaxBiasX") @@ (80 :> "ParallaxBiasY") @@
    (84 :> "Time") @@ (85 :> "ScrollSpeedSet1") @@
    (88 :> "ScrollSpeedSet2") @@ (91 :> "ScrollSpeedSet3") @@
    (94 :> "OffsetSet1") @@ (97 :> "OffsetSet2") @@
    (100 :> "DistortionStrength") @@ (113 :> "LightMapStrength") @@
    (114 :> "LightMapPower") @@ (116 :> "OffsetSet3") @@
    (119 :> "Fat") @@ (120 :> "RotationSet1") @@
    (123 :> "RotationSet2") @@ (129 :> "ScaleSet1") @@
    (141 :> "ZBias") @@ (142 :> "UnknownTextureSlot3")

\* dict([reversed(i) for i in shader_uniform_from_ids.items()]): on a repeated
\* name the last item wins
shader_uniform_from_names ==
    [name \in {shader_uniform_from_ids[id] : id \in DOMAIN shader_uniform_from_ids} |->
        CHOOSE id \in DOMAIN shader_uniform_from_ids :
            /\ shader_uniform_from_ids[id] = name
            /\ \A other \in DOMAIN shader_uniform_from_ids :
                   shader_uniform_from_ids[other] = name => other <= id]

\* The float count each uniform class declares (ShaderUniforms module): the
\* "numfloats" column of the uniform table.
ShaderUniformNumFloats ==
    [name \in DOMAIN shader_uniform_from_names |->
        IF name \in {"DiffuseTextureID", "NormalMapTextureID", "CubeMapTextureID",
                     "UnknownTextureSlot1", "OverlayTextureID", "UnknownTextureSlot2",
                     "ToonTextureID", "UnknownTextureSlot3"} THEN 0
        ELSE IF name = "DiffuseColour" THEN 4
        ELSE IF name \in {"FuzzySpecColor", "SubColor", "SurfaceColor"} THEN 3
        ELSE IF name \in {"ScrollSpeedSet1", "ScrollSpeedSet2", "ScrollSpeedSet3",
                          "OffsetSet1", "OffsetSet2", "OffsetSet3", "ScaleSet1"} THEN 2
        ELSE 1]

\* shader_uniforms_from_defn[(uniform_type, num_floats)](payload): the uniform
\* class registered under (name, float count) wraps the payload; an
\* unregistered pair is a KeyError.
shader_uniforms_from_defn(uniform_type, num_floats, payload) ==
    IF ShaderUniformNumFloats[uniform_type] # num_floats
    THEN Raised("KeyError")
    ELSE Returned([num_floats |-> num_floats, data |-> payload])

-----------------------------------------------------------------------------
(* MaterialReader.pad_byte (BaseRW): the zero byte used as filler.         *)

pad_byte == <<0>>

RECURSIVE Repeat(_, _)
\* n * s for a byte string s
Repeat(n, s) == IF n <= 0 THEN <<>> ELSE s \o Repeat(n - 1, s)

-----------------------------------------------------------------------------
(* MaterialReader.shader_uniform_factory: one 24-byte shader-uniform       *)
(* record -> (uniform name, uniform object), or an exception.              *)

\* the decoder with the check of the 16-bit sentinel at offset 18 left out
shader_uniform_factory_without_sentinel_check(record, quiet) ==
    LET payload == Slice(record, 0, 16)
        num_floats == record[18]
        padding_0x14 == UnpackI(Slice(record, 20, 24))
    IN  IF record[17] \notin DOMAIN shader_uniform_from_ids THEN Raised("KeyError")
        ELSE IF padding_0x14 # 0 THEN Raised("AssertionError")
        ELSE LET uniform_type == shader_uniform_from_ids[record[17]]
             IN  IF num_floats = 0
                 THEN LET fields == [k \in 1..8 |-> UnpackH(Slice(payload, 2 * k - 2, 2 * k))]
                      IN  IF \E k \in 2..6 : fields[k] # 0 THEN Raised("AssertionError")
                          ELSE LET made == shader_uniforms_from_defn(uniform_type, num_floats,
                                                <<fields[1], fields[7], fields[8]>>)
                               IN  IF IsRaised(made) THEN made
                                   ELSE Returned(<<uniform_type, Value(made)>>)
                 ELSE IF Len(Slice(payload, 0, num_floats * 4)) # 4 * num_floats
                 THEN Raised("struct.error")
                 ELSE LET floats == [k \in 1..num_floats |->
                                        UnpackF(Slice(payload, 4 * k - 4, 4 * k), quiet)]
                          made == shader_uniforms_from_defn(uniform_type, num_floats, floats)
                      IN  IF IsRaised(made) THEN made
                          ELSE Returned(<<uniform_type, Value(made)>>)

shader_uniform_factory(record, quiet) ==
    LET payload == Slice(record, 0, 16)
        \* data[16], then shader_uniform_from_ids[...]: KeyError on an unknown id
        num_floats == record[18]
        always_65280 == UnpackH(Slice(record, 18, 20))
        padding_0x14 == UnpackI(Slice(record, 20, 24))
    IN  IF record[17] \notin DOMAIN shader_uniform_from_ids THEN Raised("KeyError")
        ELSE IF always_65280 # 65280 THEN Raised("AssertionError")
        ELSE IF padding_0x14 # 0 THEN Raised("AssertionError")
        ELSE LET uniform_type == shader_uniform_from_ids[record[17]]
             IN  IF num_floats = 0
                 THEN \* eight 16-bit fields; fields 1..5 are checked, 0, 6, 7 kept
                      LET fields == [k \in 1..8 |-> UnpackH(Slice(payload, 2 * k - 2, 2 * k))]
                      IN  IF \E k \in 2..6 : fields[k] # 0 THEN Raised("AssertionError")
                          ELSE LET made == shader_uniforms_from_defn(uniform_type, num_floats,
                                                <<fields[1], fields[7], fields[8]>>)
                               IN  IF IsRaised(made) THEN made
                                   ELSE Returned(<<uniform_type, Value(made)>>)
                 ELSE IF Len(Slice(payload, 0, num_floats * 4)) # 4 * num_floats
                 THEN \* unpack of num_floats floats from a shorter buffer
                      Raised("struct.error")
                 ELSE \* `payload` is rebound to the tuple of num_floats floats, so
                      \* payload[num_floats:] below is the empty tail of that tuple
                      LET floats == [k \in 1..num_floats |->
                                        UnpackF(Slice(payload, 4 * k - 4, 4 * k), quiet)]
                          tail == Slice(floats, num_floats, Len(floats))
                      IN  IF \E k \in DOMAIN tail : ~FloatIsZero(tail[k])
                          THEN Raised("AssertionError")
                          ELSE LET made == shader_uniforms_from_defn(uniform_type, num_floats,
                                                Slice(floats, 0, num_floats))
                               IN  IF IsRaised(made) THEN made
                                   ELSE Returned(<<uniform_type, Value(made)>>)

(* MaterialReader.shader_uniform_data_factory: (uniform name, uniform      *)
(* object) -> 24 bytes.                                                    *)
shader_uniform_data_factory(uniform_type, shader_uniform) ==
    LET head ==
            IF shader_uniform.num_floats = 0
            THEN PackH(shader_uniform.data[1]) \o Repeat(10, pad_byte)
                     \o PackH(shader_uniform.data[2]) \o PackH(shader_uniform.data[3])
            ELSE Join([k \in 1..shader_uniform.num_floats |-> PackF(shader_uniform.data[k])])
                     \o Repeat(4 * (4 - shader_uniform.num_floats), pad_byte)
    IN  IF shader_uniform.num_floats = 0 /\ Len(shader_uniform.data) # 3
        THEN Raised("struct.error")
        ELSE IF shader_uniform.num_floats # 0
                /\ Len(shader_uniform.data) # shader_uniform.num_floats
        THEN Raised("struct.error")
        ELSE IF uniform_type \notin DOMAIN shader_uniform_from_names
        THEN Raised("KeyError")
        ELSE Returned(head \o <<shader_uniform_from_names[uniform_type]>>
                           \o <<shader_uniform.num_floats>>
                           \o PackH(65280)
                           \o PackI(0))

-----------------------------------------------------------------------------
(* Inputs of the shader-uniform codec: records built field by field.       *)

MaxNumFloats == 5

\* 4-byte payload words: zero, 1.0f, a signalling NaN
WordVals == {<<0, 0, 0, 0>>, <<0, 0, 128, 63>>, <<1, 0, 160, 127>>}

\* type ids: texture id, 4 floats, 1 float, 2 floats, 3 floats, not in the table
UniformIdVals == {50, 51, 54, 85, 62, 52}

\* the 16-bit field at offset 18: 65280, 255, 0
SentinelVals == {<<0, 255>>, <<255, 0>>, <<0, 0>>}

\* the 32-bit field at offset 20
ReservedVals == {<<0, 0, 0, 0>>, <<0, 0, 0, 1>>, <<1, 0, 0, 0>>}

UniformRecords ==
    {w1 \o w2 \o w3 \o w4 \o <<id, n>> \o s \o r :
        w1 \in WordVals, w2 \in WordVals, w3 \in WordVals, w4 \in WordVals,
        id \in UniformIdVals, n \in 0..MaxNumFloats,
        s \in SentinelVals, r \in ReservedVals}


InitUniform ==
    /\ AssemblyIdle
    /\ ReaderIdle
    /\ StripIdle
    /\ data \in UniformRecords
    /\ decoded = NotRun
    /\ encoded = NotRun
    /\ redecoded = NotRun
    /\ pc = "start"

\* decoded = shader_uniform_factory(data)
UniformDecode ==
    /\ pc = "start"
    /\ \E quiet \in BOOLEAN : decoded' = shader_uniform_factory(data, quiet)
    /\ pc' = "decoded"
    /\ UNCHANGED <<data, encoded, redecoded, readerVars, stripVars, assemblyVars>>

\* encoded = shader_uniform_data_factory(*decoded)
UniformEncode ==
    /\ pc = "decoded"
    /\ IsReturned(decoded)
    /\ encoded' = shader_uniform_data_factory(Value(decoded)[1], Value(decoded)[2])
    /\ pc' = "encoded"
    /\ UNCHANGED <<data, decoded, redecoded, readerVars, stripVars, assemblyVars>>

NextUniform == UniformDecode \/ UniformEncode

SpecUniform == InitUniform /\ [][NextUniform]_vars

-----------------------------------------------------------------------------
(* Properties of the shader-uniform codec, under SpecUniform.              *)

\* the 16 payload bytes after the first 4 * num_floats bytes hold a non-zero byte
UniformTailNonZero(record) ==
    /\ record[18] > 0
    /\ \E k \in (4 * record[18] + 1)..16 : record[k] # 0

\* the 16-bit payload fields 1 to 5 of a record are not all zero
UniformMiddleFieldsNonZero(record) ==
    \E k \in 1..5 : UnpackH(Slice(record, 2 * k, 2 * k + 2)) # 0

\* C1: for every 24-byte shader-uniform record that shader_uniform_factory
\* decodes without error, shader_uniform_data_factory applied to the decoded
\* (uniform name, value) returns exactly the original 24 bytes.
C1_UniformReencodeIsIdentity ==
    pc = "encoded" => encoded = Returned(data)

\* C4: decoding a shader-uniform record whose float count n is greater than
\* 0 raises whenever any payload byte after the first 4 * n bytes is non-zero.
C4_UniformNonZeroTailRaises ==
    (pc = "decoded" /\ UniformTailNonZero(data)) => IsRaised(decoded)

\* C5: shader_uniform_factory raises, and returns no decoded value, for every
\* record whose 16-bit field at offset 18 is not 65280, whose 32-bit field at
\* offset 20 is not 0, or (float count 0) whose 16-bit payload fields 1 to 5
\* are not all 0.
C5_UniformSentinelChecksRaise ==
    (/\ pc = "decoded"
     /\ \/ UnpackH(Slice(data, 18, 20)) # 65280
        \/ UnpackI(Slice(data, 20, 24)) # 0
        \/ (data[18] = 0 /\ UniformMiddleFieldsNonZero(data)))
    => (IsRaised(decoded) /\ decoded.val = <<>>)

\* C5 witness: a record with a known type id, a registered float count, zero
\* reserved field and a sentinel other than 65280 was decoded, and the decoder
\* raised the assertion.
C5_Witness ==
    /\ pc = "decoded"
    /\ data[17] = 54
    /\ data[18] = 1
    /\ UnpackH(Slice(data, 18, 20)) = 255
    /\ UnpackI(Slice(data, 20, 24)) = 0
    /\ decoded = Raised("AssertionError")

-----------------------------------------------------------------------------
(* possibly_umc_types: component type tag -> struct format of the 8-byte   *)
(* payload.                                                                *)

possibly_umc_types ==
    (160 :> "If") @@ (161 :> "II") @@ (162 :> "II") @@ (163 :> "HHI") @@
    (164 :> "II") @@ (166 :> "II") @@ (167 :> "II") @@ (168 :> "II") @@
    (169 :> "II") @@ (172 :> "II")

\* struct.unpack(fmt, b) for the three payload formats; every format is 8
\* bytes in native alignment
UnpackPayload(fmt, b, quiet) ==
    IF fmt = "If" THEN <<UnpackI(Slice(b, 0, 4)), UnpackF(Slice(b, 4, 8), quiet)>>
    ELSE IF fmt = "II" THEN <<UnpackI(Slice(b, 0, 4)), UnpackI(Slice(b, 4, 8))>>
    ELSE <<UnpackH(Slice(b, 0, 2)), UnpackH(Slice(b, 2, 4)), UnpackI(Slice(b, 4, 8))>>

\* struct.pack(fmt, *values) for the three payload formats
PackPayload(fmt, values) ==
    IF fmt = "If" THEN PackI(values[1]) \o PackF(values[2])
    ELSE IF fmt = "II" THEN PackI(values[1]) \o PackI(values[2])
    ELSE PackH(values[1]) \o PackH(values[2]) \o PackI(values[3])

\* number of values a format takes
FormatArity(fmt) == IF fmt = "HHI" THEN 3 ELSE 2

(* MaterialReader.umc_factory: one 24-byte unknown-component record ->     *)
(* (type tag, payload tuple), or an exception.                             *)

\* the decoder with the check of the byte at offset 17 left out
umc_factory_without_100_check(record, quiet) ==
    LET padding_0x08 == UnpackH(Slice(record, 8, 10))
        padding_0x0A == UnpackH(Slice(record, 10, 12))
        padding_0x0C == UnpackH(Slice(record, 12, 14))
        padding_0x0E == UnpackH(Slice(record, 14, 16))
        maybe_component_type == record[17]
        always_65280 == UnpackH(Slice(record, 18, 20))
        padding_0x14 == UnpackI(Slice(record, 20, 24))
    IN  IF padding_0x08 # 0 \/ padding_0x0A # 0 \/ padding_0x0C # 0 \/ padding_0x0E # 0
        THEN Raised("AssertionError")
        ELSE IF always_65280 # 65280 THEN Raised("AssertionError")
        ELSE IF padding_0x14 # 0 THEN Raised("AssertionError")
        ELSE IF maybe_component_type \notin DOMAIN possibly_umc_types THEN Raised("KeyError")
        ELSE Returned(<<maybe_component_type,
                        UnpackPayload(possibly_umc_types[maybe_component_type],
                                      Slice(record, 0, 8), quiet)>>)

umc_factory(record, quiet) ==
    LET padding_0x08 == UnpackH(Slice(record, 8, 10))
        padding_0x0A == UnpackH(Slice(record, 10, 12))
        padding_0x0C == UnpackH(Slice(record, 12, 14))
        padding_0x0E == UnpackH(Slice(record, 14, 16))
        maybe_component_type == record[17]
        always_100 == record[18]
        always_65280 == UnpackH(Slice(record, 18, 20))
        padding_0x14 == UnpackI(Slice(record, 20, 24))
    IN  IF padding_0x08 # 0 \/ padding_0x0A # 0 \/ padding_0x0C # 0 \/ padding_0x0E # 0
        THEN Raised("AssertionError")
        ELSE IF always_100 # 100 THEN Raised("AssertionError")
        ELSE IF always_65280 # 65280 THEN Raised("AssertionError")
        ELSE IF padding_0x14 # 0 THEN Raised("AssertionError")
        ELSE IF maybe_component_type \notin DOMAIN possibly_umc_types THEN Raised("KeyError")
        ELSE Returned(<<maybe_component_type,
                        UnpackPayload(possibly_umc_types[maybe_component_type],
                                      Slice(record, 0, 8), quiet)>>)

(* MaterialReader.umc_data_factory: (type tag, payload tuple) -> 24 bytes. *)
umc_data_factory(maybe_component_type, payload) ==
    IF maybe_component_type \notin DOMAIN possibly_umc_types THEN Raised("KeyError")
    ELSE IF Len(payload) # FormatArity(possibly_umc_types[maybe_component_type])
    THEN Raised("struct.error")
    ELSE Returned(PackPayload(possibly_umc_types[maybe_component_type], payload)
                      \o PackH(0) \o PackH(0) \o PackH(0) \o PackH(0)
                      \o <<maybe_component_type>>
                      \o <<100>>
                      \o PackH(65280)
                      \o PackI(0))

-----------------------------------------------------------------------------
(* Inputs of the unknown-component codec.                                  *)

\* 4-byte words of the required-zero padding at offsets 8..15
PadWordVals == {<<0, 0, 0, 0>>, <<1, 0, 0, 0>>, <<0, 0, 0, 1>>}

\* type tags: int/float, int/int, short/short/int, not in the table
UmcTagVals == {160, 161, 163, 165}

\* the byte at offset 17
UmcMarkVals == {100, 0}

UmcRecords ==
    {w1 \o w2 \o p1 \o p2 \o <<tag, mark>> \o s \o r :
        w1 \in WordVals, w2 \in WordVals, p1 \in PadWordVals, p2 \in PadWordVals,
        tag \in UmcTagVals, mark \in UmcMarkVals,
        s \in SentinelVals, r \in ReservedVals}

\* payload values handed to the encoder first
UmcIntVals == {0, 1, 516, 32779}

UmcFloatVals == {UnpackF(w, FALSE) : w \in WordVals}

UmcPayloads(fmt) ==
    IF fmt = "If" THEN {<<a, f>> : a \in UmcIntVals, f \in UmcFloatVals}
    ELSE IF fmt = "II" THEN {<<a, b>> : a \in UmcIntVals, b \in UmcIntVals}
    ELSE {<<a, b, c>> : a \in UmcIntVals, b \in UmcIntVals, c \in UmcIntVals}

InitUmc ==
    /\ AssemblyIdle
    /\ ReaderIdle
    /\ StripIdle
    /\ encoded = NotRun
    /\ redecoded = NotRun
    /\ \/ /\ data \in UmcRecords
          /\ decoded = NotRun
          /\ pc = "start"
       \/ /\ data = <<>>
          /\ \E tag \in DOMAIN possibly_umc_types :
                 \E payload \in UmcPayloads(possibly_umc_types[tag]) :
                     decoded = Returned(<<tag, payload>>)
          /\ pc = "given"

\* decoded = umc_factory(data)
UmcDecode ==
    /\ pc = "start"
    /\ \E quiet \in BOOLEAN : decoded' = umc_factory(data, quiet)
    /\ pc' = "decoded"
    /\ UNCHANGED <<data, encoded, redecoded, readerVars, stripVars, assemblyVars>>

\* encoded = umc_data_factory(*decoded), for a decoded record
UmcEncode ==
    /\ pc = "decoded"
    /\ IsReturned(decoded)
    /\ encoded' = umc_data_factory(Value(decoded)[1], Value(decoded)[2])
    /\ pc' = "encoded"
    /\ UNCHANGED <<data, decoded, redecoded, readerVars, stripVars, assemblyVars>>

\* encoded = umc_data_factory(tag, payload), for a given (tag, payload)
UmcEncodeGiven ==
    /\ pc = "given"
    /\ encoded' = umc_data_factory(Value(decoded)[1], Value(decoded)[2])
    /\ pc' = "given-encoded"
    /\ UNCHANGED <<data, decoded, redecoded, readerVars, stripVars, assemblyVars>>

\* redecoded = umc_factory(encoded)
UmcRedecode ==
    /\ pc = "given-encoded"
    /\ IsReturned(encoded)
    /\ \E quiet \in BOOLEAN : redecoded' = umc_factory(Value(encoded), quiet)
    /\ pc' = "redecoded"
    /\ UNCHANGED <<data, decoded, encoded, readerVars, stripVars, assemblyVars>>

NextUmc == UmcDecode \/ UmcEncode \/ UmcEncodeGiven \/ UmcRedecode

SpecUmc == InitUmc /\ [][NextUmc]_vars

-----------------------------------------------------------------------------
(* Properties of the unknown-component codec, under SpecUmc.               *)

\* C2: for every 24-byte unknown-component record that umc_factory decodes
\* without error, umc_data_factory applied to the decoded (tag, payload)
\* returns exactly the original 24 bytes; and for every tag of the payload-type
\* table and every payload tuple of its layout, decoding the encoding of
\* (tag, payload) returns (tag, payload).
C2_UmcRoundTrips ==
    /\ pc = "encoded" => encoded = Returned(data)
    /\ pc = "redecoded" => redecoded = decoded

\* C6: umc_factory raises, and returns no decoded value, for every record in
\* which a byte at offsets 8..15 is non-zero, the byte at offset 17 is not 100,
\* the 16-bit field at offset 18 is not 65280, or the 32-bit field at offset
\* 20 is not 0.
C6_UmcSentinelChecksRaise ==
    (/\ pc = "decoded"
     /\ \/ \E k \in 9..16 : data[k] # 0
        \/ data[18] # 100
        \/ UnpackH(Slice(data, 18, 20)) # 65280
        \/ UnpackI(Slice(data, 20, 24)) # 0)
    => (IsRaised(decoded) /\ decoded.val = <<>>)

\* C6 witness: a record with a known tag whose only broken field is the byte
\* at offset 17 was decoded, and the decoder raised the assertion.
C6_Witness ==
    /\ pc = "decoded"
    /\ data[17] = 161
    /\ \A k \in 9..16 : data[k] = 0
    /\ data[18] = 0
    /\ UnpackH(Slice(data, 18, 20)) = 65280
    /\ UnpackI(Slice(data, 20, 24)) = 0
    /\ decoded = Raised("AssertionError")

-----------------------------------------------------------------------------
(* The shader identifier: 16 raw bytes <-> text, as interpret_material and *)
(* reinterpret_material convert self.shader_hex.                           *)

HexDigits == <<"0", "1", "2", "3", "4", "5", "6", "7",
               "8", "9", "a", "b", "c", "d", "e", "f">>

UpperHexDigits == <<"0", "1", "2", "3", "4", "5", "6", "7",
                    "8", "9", "A", "B", "C", "D", "E", "F">>

RECURSIVE BytesHex(_)
\* bytes.hex(): two lower-case digits per byte, high nibble first
BytesHex(b) ==
    IF b = <<>> THEN <<>>
    ELSE <<HexDigits[(Head(b) \div 16) + 1], HexDigits[(Head(b) % 16) + 1]>> \o BytesHex(Tail(b))

IsHexDigit(c) == \E v \in 1..16 : HexDigits[v] = c \/ UpperHexDigits[v] = c

\* value of one hex digit, either case
HexValue(c) == (CHOOSE v \in 1..16 : HexDigits[v] = c \/ UpperHexDigits[v] = c) - 1

RECURSIVE BytesFromHexDigits(_)
BytesFromHexDigits(t) ==
    IF t = <<>> THEN <<>>
    ELSE <<16 * HexValue(t[1]) + HexValue(t[2])>> \o BytesFromHexDigits(SubSeq(t, 3, Len(t)))

\* bytes.fromhex(text): ValueError on an odd number of digits or a non-digit
BytesFromHex(t) ==
    IF Len(t) % 2 # 0 \/ \E k \in DOMAIN t : ~IsHexDigit(t[k])
    THEN Raised("ValueError")
    ELSE Returned(BytesFromHexDigits(t))

RECURSIVE JoinText(_, _)
\* sep.join(parts)
JoinText(sep, parts) ==
    IF parts = <<>> THEN <<>>
    ELSE IF Len(parts) = 1 THEN parts[1]
    ELSE parts[1] \o <<sep>> \o JoinText(sep, Tail(parts))

RECURSIVE SplitText(_, _)
\* text.split(sep): the pieces between the separators, at least one piece
SplitText(t, sep) ==
    IF \A k \in DOMAIN t : t[k] # sep THEN <<t>>
    ELSE LET first == CHOOSE k \in DOMAIN t : t[k] = sep /\ \A j \in 1..(k - 1) : t[j] # sep
         IN  <<SubSeq(t, 1, first - 1)>> \o SplitText(SubSeq(t, first + 1, Len(t)), sep)

\* interpret_material, the shader identifier with the groups hex-encoded as stored
InterpretShaderHexUnreversed(shader_hex) ==
    JoinText("_", <<BytesHex(Slice(shader_hex, 0, 4)),
                    BytesHex(Slice(shader_hex, 4, 8)),
                    BytesHex(Slice(shader_hex, 8, 12)),
                    BytesHex(Slice(shader_hex, 12, 16))>>)

\* interpret_material, the shader identifier: bytes -> text
InterpretShaderHex(shader_hex) ==
    LET shader_hex_pt_1 == BytesHex(Reversed(Slice(shader_hex, 0, 4)))
        shader_hex_pt_2 == BytesHex(Reversed(Slice(shader_hex, 4, 8)))
        shader_hex_pt_3 == BytesHex(Reversed(Slice(shader_hex, 8, 12)))
        shader_hex_pt_4 == BytesHex(Reversed(Slice(shader_hex, 12, 16)))
    IN  JoinText("_", <<shader_hex_pt_1, shader_hex_pt_2, shader_hex_pt_3, shader_hex_pt_4>>)

\* reinterpret_material, the shader identifier: text -> bytes
ReinterpretShaderHex(shader_hex) ==
    LET hex_parts == SplitText(shader_hex, "_")
    IN  IF Len(hex_parts) < 4 THEN Raised("IndexError")
        ELSE IF \E k \in 1..4 : IsRaised(BytesFromHex(hex_parts[k])) THEN Raised("ValueError")
        ELSE Returned(Join([k \in 1..4 |-> Reversed(Value(BytesFromHex(hex_parts[k])))]))

\* 4-byte groups of a shader identifier
GroupVals ==
    {<<0, 1, 2, 3>>, <<4, 5, 6, 7>>, <<8, 9, 10, 11>>, <<12, 13, 14, 15>>,
     <<170, 187, 204, 221>>, <<255, 0, 16, 9>>}

ShaderIds == {g1 \o g2 \o g3 \o g4 : g1 \in GroupVals, g2 \in GroupVals,
                                     g3 \in GroupVals, g4 \in GroupVals}

InitShaderHex ==
    /\ AssemblyIdle
    /\ ReaderIdle
    /\ StripIdle
    /\ data \in ShaderIds
    /\ decoded = NotRun
    /\ encoded = NotRun
    /\ redecoded = NotRun
    /\ pc = "start"

\* the shader identifier part of interpret_material
HexInterpret ==
    /\ pc = "start"
    /\ decoded' = Returned(InterpretShaderHex(data))
    /\ pc' = "decoded"
    /\ UNCHANGED <<data, encoded, redecoded, readerVars, stripVars, assemblyVars>>

\* the shader identifier part of reinterpret_material
HexReinterpret ==
    /\ pc = "decoded"
    /\ encoded' = ReinterpretShaderHex(Value(decoded))
    /\ pc' = "encoded"
    /\ UNCHANGED <<data, decoded, redecoded, readerVars, stripVars, assemblyVars>>

NextShaderHex == HexInterpret \/ HexReinterpret

SpecShaderHex == InitShaderHex /\ [][NextShaderHex]_vars

-----------------------------------------------------------------------------
(* Properties of the shader identifier text form, under SpecShaderHex.     *)

\* the text '03020100_07060504_0b0a0908_0f0e0d0c'
ExampleShaderText ==
    <<"0", "3", "0", "2", "0", "1", "0", "0", "_",
      "0", "7", "0", "6", "0", "5", "0", "4", "_",
      "0", "b", "0", "a", "0", "9", "0", "8", "_",
      "0", "f", "0", "e", "0", "d", "0", "c">>

\* text is four groups of 8 lower-case hex digits joined by '_', group g
\* holding the bytes 4g+3, 4g+2, 4g+1, 4g of b in this order
IsShaderTextOf(text, b) ==
    /\ Len(text) = 35
    /\ \A g \in 1..3 : text[9 * g] = "_"
    /\ \A g \in 0..3 : \A j \in 0..3 :
           /\ text[9 * g + 2 * j + 1] = HexDigits[(b[4 * g + 4 - j] \div 16) + 1]
           /\ text[9 * g + 2 * j + 2] = HexDigits[(b[4 * g + 4 - j] % 16) + 1]

\* C3: for every 16-byte shader identifier b, interpret_material gives four
\* 8-hex-digit groups (each 4-byte group byte-reversed, lower-case hex) joined
\* by '_', reinterpret_material applied to that text gives back exactly b, and
\* the bytes 00..0F give '03020100_07060504_0b0a0908_0f0e0d0c'.
C3_ShaderHexRoundTrips ==
    /\ pc \in {"decoded", "encoded"} =>
           /\ IsReturned(decoded)
           /\ IsShaderTextOf(Value(decoded), data)
           /\ (data = [k \in 1..16 |-> k - 1] => Value(decoded) = ExampleShaderText)
    /\ pc = "encoded" => encoded = Returned(data)

\* C3 witness: the bytes 00..0F were converted to the example text and back.
C3_Witness ==
    /\ pc = "encoded"
    /\ data = [k \in 1..16 |-> k - 1]
    /\ decoded = Returned(ExampleShaderText)
    /\ encoded = Returned(data)

-----------------------------------------------------------------------------
(* MaterialReader: the reader object and read().                           *)

\* MaterialReader.__init__
MaterialReaderInit ==
    [unknown_0x00 |-> NoneValue,
     unknown_0x02 |-> NoneValue,
     shader_hex |-> NoneValue,
     num_shader_uniforms |-> NoneValue,
     num_unknown_data |-> NoneValue,
     unknown_0x16 |-> NoneValue,
     shader_uniforms |-> List(<<>>),
     unknown_data |-> List(<<>>)]

\* BaseRW.chunk_list(data, n): the consecutive n-byte pieces of data
chunk_list(b, n) ==
    [k \in 1..((Len(b) + n - 1) \div n) |-> Slice(b, n * (k - 1), n * k)]

RECURSIVE DictFromPairs(_, _)
\* {elem[0]: elem[1] for elem in pairs}, added to the items so far: a repeated
\* key keeps its first position and takes the later value
DictFromPairs(items, pairs) ==
    IF pairs = <<>> THEN items
    ELSE LET key == Head(pairs)[1]
             value == Head(pairs)[2]
             updated ==
                 IF \E k \in DOMAIN items : items[k][1] = key
                 THEN [k \in DOMAIN items |->
                          IF items[k][1] = key THEN <<key, value>> ELSE items[k]]
                 ELSE Append(items, <<key, value>>)
         IN  DictFromPairs(updated, Tail(pairs))

\* a list comprehension over calls raises what the first failing call raises
FirstRaised(outcomes) ==
    outcomes[CHOOSE k \in DOMAIN outcomes :
                 IsRaised(outcomes[k]) /\ \A j \in 1..(k - 1) : ~IsRaised(outcomes[j])]

\* read_write(self.read_buffer, self.read_raw): rw_header, then the two raw
\* record sections, read off the stream from the cursor; the object after it
read_write_read(obj, stream, pos) ==
    LET header == Slice(stream, pos, pos + 24)
        n_uniforms == header[21]
        n_unknown == header[22]
    IN  [obj EXCEPT
            !.unknown_0x00 = UnpackH(Slice(header, 0, 2)),
            !.unknown_0x02 = UnpackH(Slice(header, 2, 4)),
            !.shader_hex = Bytes(Slice(header, 4, 20)),
            !.num_shader_uniforms = n_uniforms,
            !.num_unknown_data = n_unknown,
            !.unknown_0x16 = UnpackH(Slice(header, 22, 24)),
            !.shader_uniforms =
                Bytes(Slice(stream, pos + 24, pos + 24 + 24 * n_uniforms)),
            !.unknown_data =
                Bytes(Slice(stream, pos + 24 + 24 * n_uniforms,
                            pos + 24 + 24 * n_uniforms + 24 * n_unknown))]

\* interpret_material: the object and the exception it ends with
interpret_material(obj, quiet) ==
    LET text == Str(InterpretShaderHex(obj.shader_hex.v))
        chunks == chunk_list(obj.shader_uniforms.v, 24)
        outcomes == [k \in DOMAIN chunks |-> shader_uniform_factory(chunks[k], quiet)]
    IN  IF \E k \in DOMAIN outcomes : IsRaised(outcomes[k])
        THEN [obj |-> [obj EXCEPT !.shader_hex = text],
              exc |-> FirstRaised(outcomes).exc]
        ELSE [obj |-> [obj EXCEPT
                          !.shader_hex = text,
                          !.shader_uniforms =
                              Dict(DictFromPairs(<<>>, [k \in DOMAIN outcomes |->
                                                          Value(outcomes[k])]))],
              exc |-> "None"]

\* interpret_unknown_material_components with an unknown tag read as two ints
interpret_unknown_material_components_lenient(obj, quiet) ==
    LET chunks == chunk_list(obj.unknown_data.v, 24)
        outcomes == [k \in DOMAIN chunks |->
                        IF chunks[k][17] \in DOMAIN possibly_umc_types
                        THEN umc_factory(chunks[k], quiet)
                        ELSE umc_factory([chunks[k] EXCEPT ![17] = 161], quiet)]
    IN  IF \E k \in DOMAIN outcomes : IsRaised(outcomes[k])
        THEN [obj |-> obj, exc |-> FirstRaised(outcomes).exc]
        ELSE [obj |-> [obj EXCEPT
                          !.unknown_data =
                              Dict(DictFromPairs(<<>>, [k \in DOMAIN outcomes |->
                                                          Value(outcomes[k])]))],
              exc |-> "None"]

\* interpret_unknown_material_components: the object and the exception it
\* ends with
interpret_unknown_material_components(obj, quiet) ==
    LET chunks == chunk_list(obj.unknown_data.v, 24)
        outcomes == [k \in DOMAIN chunks |-> umc_factory(chunks[k], quiet)]
    IN  IF \E k \in DOMAIN outcomes : IsRaised(outcomes[k])
        THEN [obj |-> obj, exc |-> FirstRaised(outcomes).exc]
        ELSE [obj |-> [obj EXCEPT
                          !.unknown_data =
                              Dict(DictFromPairs(<<>>, [k \in DOMAIN outcomes |->
                                                          Value(outcomes[k])]))],
              exc |-> "None"]

\* MaterialReader.read: the object and the exception it ends with
read(obj, stream, pos, quiet) ==
    LET raw == read_write_read(obj, stream, pos)
        material == interpret_material(raw, quiet)
    IN  IF material.exc # "None" THEN material
        ELSE interpret_unknown_material_components(material.obj, quiet)

\* reinterpret_unknown_material_components: the object and the exception
\* it ends with
reinterpret_unknown_material_components(obj) ==
    IF obj.unknown_data.kind # "dict" THEN [obj |-> obj, exc |-> "AttributeError"]
    ELSE LET items == obj.unknown_data.v
             outcomes == [k \in DOMAIN items |->
                             umc_data_factory(items[k][1], items[k][2])]
         IN  IF \E k \in DOMAIN outcomes : IsRaised(outcomes[k])
             THEN [obj |-> obj, exc |-> FirstRaised(outcomes).exc]
             ELSE [obj |-> [obj EXCEPT
                               !.unknown_data =
                                   Bytes(Join([k \in DOMAIN outcomes |->
                                                  Value(outcomes[k])]))],
                   exc |-> "None"]

\* reinterpret_material: the object and the exception it ends with
reinterpret_material(obj) ==
    IF obj.shader_hex.kind = "None" THEN [obj |-> obj, exc |-> "AttributeError"]
    ELSE IF obj.shader_hex.kind # "str" THEN [obj |-> obj, exc |-> "TypeError"]
    ELSE LET hex == ReinterpretShaderHex(obj.shader_hex.v)
         IN  IF IsRaised(hex) THEN [obj |-> obj, exc |-> hex.exc]
             ELSE LET rebound == [obj EXCEPT !.shader_hex = Bytes(Value(hex))]
                  IN  IF obj.shader_uniforms.kind # "dict"
                      THEN [obj |-> rebound, exc |-> "AttributeError"]
                      ELSE LET items == obj.shader_uniforms.v
                               outcomes == [k \in DOMAIN items |->
                                   shader_uniform_data_factory(items[k][1], items[k][2])]
                           IN  IF \E k \in DOMAIN outcomes : IsRaised(outcomes[k])
                               THEN [obj |-> rebound, exc |-> FirstRaised(outcomes).exc]
                               ELSE [obj |-> [rebound EXCEPT
                                                 !.shader_uniforms =
                                                     Bytes(Join([k \in DOMAIN outcomes |->
                                                                    Value(outcomes[k])]))],
                                     exc |-> "None"]

\* read_write(self.write_buffer, self.write_raw): the bytes of rw_header and
\* of the two raw record sections, as the attributes hold them
read_write_write(obj) ==
    PackH(obj.unknown_0x00) \o PackH(obj.unknown_0x02) \o obj.shader_hex.v
        \o <<obj.num_shader_uniforms>> \o <<obj.num_unknown_data>>
        \o PackH(obj.unknown_0x16) \o obj.shader_uniforms.v \o obj.unknown_data.v

\* a write() that emits the sections as they are when they are bytes already
write_tolerating_raw(obj) ==
    LET components == IF obj.unknown_data.kind = "bytes" THEN [obj |-> obj, exc |-> "None"]
                      ELSE reinterpret_unknown_material_components(obj)
        material == IF components.obj.shader_hex.kind = "bytes"
                       /\ components.obj.shader_uniforms.kind = "bytes"
                    THEN components
                    ELSE reinterpret_material(components.obj)
    IN  IF components.exc # "None"
        THEN [obj |-> components.obj, exc |-> components.exc, emitted |-> <<>>]
        ELSE IF material.exc # "None"
        THEN [obj |-> material.obj, exc |-> material.exc, emitted |-> <<>>]
        ELSE [obj |-> material.obj, exc |-> "None",
              emitted |-> read_write_write(material.obj)]

\* MaterialReader.write: the object, the exception it ends with and the
\* bytes it wrote to the stream
write(obj) ==
    LET components == reinterpret_unknown_material_components(obj)
        material == reinterpret_material(components.obj)
    IN  IF components.exc # "None"
        THEN [obj |-> components.obj, exc |-> components.exc, emitted |-> <<>>]
        ELSE IF material.exc # "None"
        THEN [obj |-> material.obj, exc |-> material.exc, emitted |-> <<>>]
        ELSE [obj |-> material.obj, exc |-> "None",
              emitted |-> read_write_write(material.obj)]

MaxReaderCalls == 3

-----------------------------------------------------------------------------
(* Inputs of read(): material blocks made of a header and sample records.  *)

MaxUniforms == 2

MaxUnknownData == 2

\* DiffuseTextureID 3
UniformTexture3 == PackH(3) \o Repeat(10, pad_byte) \o PackH(0) \o PackH(0)
                       \o <<50, 0>> \o PackH(65280) \o PackI(0)

\* DiffuseTextureID 7: the type id of UniformTexture3 again
UniformTexture7 == PackH(7) \o Repeat(10, pad_byte) \o PackH(0) \o PackH(0)
                       \o <<50, 0>> \o PackH(65280) \o PackI(0)

\* Bumpiness 1.0
UniformBumpiness == <<0, 0, 128, 63>> \o Repeat(12, pad_byte)
                        \o <<54, 1>> \o PackH(65280) \o PackI(0)

\* a type id that is no key of shader_uniform_from_ids
UniformUnknownId == PackH(3) \o Repeat(10, pad_byte) \o PackH(0) \o PackH(0)
                        \o <<52, 0>> \o PackH(65280) \o PackI(0)

\* a known type id with the sentinel at offset 18 broken
UniformBadSentinel == <<0, 0, 128, 63>> \o Repeat(12, pad_byte)
                          \o <<54, 1>> \o PackH(255) \o PackI(0)

UniformSamples ==
    {UniformTexture3, UniformTexture7, UniformBumpiness, UniformUnknownId, UniformBadSentinel}

\* tag 167 with payload (516, 0)
UmcInts == PackI(516) \o PackI(0) \o Repeat(8, pad_byte)
               \o <<167, 100>> \o PackH(65280) \o PackI(0)

\* tag 160 with payload (1, 1.0)
UmcIntFloat == PackI(1) \o <<0, 0, 128, 63>> \o Repeat(8, pad_byte)
                   \o <<160, 100>> \o PackH(65280) \o PackI(0)

\* a tag that is no key of possibly_umc_types
UmcUnknownTag == PackI(516) \o PackI(0) \o Repeat(8, pad_byte)
                     \o <<165, 100>> \o PackH(65280) \o PackI(0)

\* a known tag with the byte at offset 17 broken
UmcBadMark == PackI(516) \o PackI(0) \o Repeat(8, pad_byte)
                  \o <<167, 0>> \o PackH(65280) \o PackI(0)

UmcSamples == {UmcInts, UmcIntFloat, UmcUnknownTag, UmcBadMark}

\* all sequences over S of length at most n
SeqsUpTo(S, n) == UNION {[1..k -> S] : k \in 0..n}

ShaderIdSamples == {[k \in 1..16 |-> k - 1]}

MaterialBlocks ==
    {PackH(1) \o PackH(0) \o id \o <<Len(us), Len(cs)>> \o PackH(1) \o Join(us) \o Join(cs) :
        id \in ShaderIdSamples,
        us \in SeqsUpTo(UniformSamples, MaxUniforms),
        cs \in SeqsUpTo(UmcSamples, MaxUnknownData)}

InitMaterial ==
    /\ AssemblyIdle
    /\ CodecIdle
    /\ StripIdle
    /\ io_stream \in MaterialBlocks
    /\ io_pos = 0
    /\ self = MaterialReaderInit
    /\ result = NotRun
    /\ reader_calls = <<>>

\* reader.read() on a freshly built reader
Read ==
    /\ result = NotRun
    /\ \E quiet \in BOOLEAN :
           LET done == read(self, io_stream, io_pos, quiet)
           IN  /\ self' = done.obj
               /\ result' = [exc |-> done.exc, val |-> <<>>]
    /\ io_pos' = io_pos + 24 + 24 * io_stream[21] + 24 * io_stream[22]
    /\ reader_calls' = Append(reader_calls, "read")
    /\ UNCHANGED <<io_stream, codecVars, stripVars, assemblyVars>>

\* reader.write(): what it emits is written to the stream at the cursor
Write ==
    /\ Len(reader_calls) < MaxReaderCalls
    /\ LET done == write(self)
       IN  /\ self' = done.obj
           /\ result' = [exc |-> done.exc, val |-> <<>>]
           /\ io_stream' = Slice(io_stream, 0, io_pos) \o done.emitted
                               \o Slice(io_stream, io_pos + Len(done.emitted),
                                        Len(io_stream))
           /\ io_pos' = io_pos + Len(done.emitted)
    /\ reader_calls' = Append(reader_calls, "write")
    /\ UNCHANGED <<codecVars, stripVars, assemblyVars>>

NextMaterial == Read \/ Write

SpecMaterial == InitMaterial /\ [][NextMaterial]_vars

-----------------------------------------------------------------------------
(* Properties of read(), under SpecMaterial.                               *)

\* the k-th (0-based) shader-uniform record of a material block
UniformRecordOf(stream, k) == Slice(stream, 24 + 24 * k, 48 + 24 * k)

\* the k-th (0-based) unknown-component record of a material block
UmcRecordOf(stream, k) ==
    Slice(stream, 24 + 24 * stream[21] + 24 * k, 48 + 24 * stream[21] + 24 * k)

\* some record of the block carries a type id or tag outside its table
HasUnknownTypeOrTag(stream) ==
    \/ \E k \in 0..(stream[21] - 1) :
           UniformRecordOf(stream, k)[17] \notin DOMAIN shader_uniform_from_ids
    \/ \E k \in 0..(stream[22] - 1) :
           UmcRecordOf(stream, k)[17] \notin
               {160, 161, 162, 163, 164, 166, 167, 168, 169, 172}

\* read() completed with a decoded material: no exception, both maps built
ReadCompleted ==
    /\ result.exc = "None"
    /\ self.shader_hex.kind = "str"
    /\ self.shader_uniforms.kind = "dict"
    /\ self.unknown_data.kind = "dict"

\* C7: a material read fails as a whole (an error is raised and read() does
\* not complete with a decoded material) when a shader-uniform record carries
\* a type id that is no key of the uniform table, or an unknown-component
\* record carries a tag that is no key of the payload-type table.
C7_UnknownTypeFailsRead ==
    (result # NotRun /\ HasUnknownTypeOrTag(io_stream))
    => (IsRaised(result) /\ ~ReadCompleted)

\* C7 witness: a block whose shader-uniform records all decode and whose
\* second unknown-component record carries tag 165 was read, and read() raised
\* KeyError with the component map never built.
C7_Witness ==
    /\ result = Raised("KeyError")
    /\ io_stream[21] = 2
    /\ io_stream[22] = 2
    /\ self.shader_uniforms.kind = "dict"
    /\ UmcRecordOf(io_stream, 0) = UmcInts
    /\ UmcRecordOf(io_stream, 1) = UmcUnknownTag
    /\ self.unknown_data.kind = "bytes"

-----------------------------------------------------------------------------
(* triangle_strips_to_polys: the loop over the windows of an index strip.  *)

\* set(tri)
TupleSet(tri) == {tri[k] : k \in DOMAIN tri}

\* tri in triangles
InList(tri, list) == \E k \in DOMAIN list : list[k] = tri

\* the loop body with the winding taken from the number of triangles kept
strip_iteration_parity_of_kept(strip, n, kept) ==
    LET window == <<strip[n + 1], strip[n + 2], strip[n + 3]>>
        order == Len(kept) % 2
        tri == <<window[1 + order], window[2 - order], window[3]>>
    IN  IF ~(Cardinality(TupleSet(tri)) # 3 \/ InList(tri, kept))
        THEN Append(kept, tri)
        ELSE kept

\* the loop body without the test for three distinct indices
strip_iteration_keeps_degenerate(strip, n, kept) ==
    LET window == <<strip[n + 1], strip[n + 2], strip[n + 3]>>
        order == n % 2
        tri == <<window[1 + order], window[2 - order], window[3]>>
    IN  IF ~InList(tri, kept) THEN Append(kept, tri) ELSE kept

\* one pass of the loop body: window n of the strip (n counts from 0) and the
\* triangles kept so far give the triangles kept after it
strip_iteration(strip, n, kept) ==
    LET window == <<strip[n + 1], strip[n + 2], strip[n + 3]>>
        order == n % 2
        tri == <<window[1 + order], window[2 - order], window[3]>>
        triangle == TupleSet(tri)
    IN  IF ~(Cardinality(triangle) # 3 \/ InList(tri, kept))
        THEN Append(kept, tri)
        ELSE kept

\* s[start::step]
Stride(s, start, step) ==
    IF start >= Len(s) THEN <<>>
    ELSE [k \in 1..((Len(s) - start + step - 1) \div step) |-> s[start + 1 + step * (k - 1)]]

\* list(zip(a, b, c)): as many triples as the shortest argument has items
Zip3(a, b, c) ==
    LET n == IF Len(a) <= Len(b) /\ Len(a) <= Len(c) THEN Len(a)
             ELSE IF Len(b) <= Len(c) THEN Len(b) ELSE Len(c)
    IN  [k \in 1..n |-> <<a[k], b[k], c[k]>>]

\* triangles_to_polys with the first two indices of each triple exchanged
triangles_to_polys_swapped(list) ==
    LET triples == Zip3(Stride(list, 0, 3), Stride(list, 1, 3), Stride(list, 2, 3))
    IN  [k \in DOMAIN triples |-> <<triples[k][2], triples[k][1], triples[k][3]>>]

RECURSIVE DropDegenerate(_)
DropDegenerate(triples) ==
    IF triples = <<>> THEN <<>>
    ELSE IF Cardinality(TupleSet(Head(triples))) # 3 THEN DropDegenerate(Tail(triples))
    ELSE <<Head(triples)>> \o DropDegenerate(Tail(triples))

\* triangles_to_polys with the 3-distinct test of the strip decoder applied
triangles_to_polys_dropping_degenerate(list) ==
    DropDegenerate(Zip3(Stride(list, 0, 3), Stride(list, 1, 3), Stride(list, 2, 3)))

\* triangles_to_polys: the triples of zip(idxs[::3], idxs[1::3], idxs[2::3])
triangles_to_polys(list) ==
    LET triples == Zip3(Stride(list, 0, 3), Stride(list, 1, 3), Stride(list, 2, 3))
    IN  [k \in DOMAIN triples |-> <<triples[k][1], triples[k][2], triples[k][3]>>]

\* number of windows zip(idxs, idxs[1:], idxs[2:]) yields
WindowCount(strip) == IF Len(strip) < 3 THEN 0 ELSE Len(strip) - 2

MaxStripLen == 5

MaxIndex == 4

InitStrip ==
    /\ AssemblyIdle
    /\ CodecIdle
    /\ ReaderIdle
    /\ idxs \in SeqsUpTo(0..MaxIndex, MaxStripLen)
    /\ i = 0
    /\ triangles = <<>>
    /\ strip_pc = "loop"
    /\ polys = <<>>

\* the for loop takes the next window
StripIteration ==
    /\ strip_pc = "loop"
    /\ i < WindowCount(idxs)
    /\ triangles' = strip_iteration(idxs, i, triangles)
    /\ i' = i + 1
    /\ UNCHANGED <<idxs, strip_pc, polys, codecVars, readerVars, assemblyVars>>

\* the windows are exhausted: return triangles
StripReturn ==
    /\ strip_pc = "loop"
    /\ i >= WindowCount(idxs)
    /\ strip_pc' = "returned"
    /\ UNCHANGED <<idxs, i, triangles, polys, codecVars, readerVars, assemblyVars>>

\* the returned triangles, written out as a triangle list
Flatten(tris) == Join(tris)

\* triangles_to_polys applied to the returned triangles as a triangle list
StripRelist ==
    /\ strip_pc = "returned"
    /\ polys' = triangles_to_polys(Flatten(triangles))
    /\ strip_pc' = "relisted"
    /\ UNCHANGED <<idxs, i, triangles, codecVars, readerVars, assemblyVars>>

NextStrip == StripIteration \/ StripReturn \/ StripRelist

SpecStrip == InitStrip /\ [][NextStrip]_vars

-----------------------------------------------------------------------------
(* Properties of triangle_strips_to_polys, under SpecStrip.                *)

\* window k (0-based) of a strip in the winding the claim gives it
WindowTriangle(strip, k) ==
    IF k % 2 = 0
    THEN <<strip[k + 1], strip[k + 2], strip[k + 3]>>
    ELSE <<strip[k + 2], strip[k + 1], strip[k + 3]>>

\* C8: for every index strip, triangle_strips_to_polys never emits a triangle
\* that equals, as an unordered set of 3 indices, a triangle it already
\* emitted for that strip.
C8_NoTriangleRepeatsAsSet ==
    \A a \in DOMAIN triangles : \A b \in DOMAIN triangles :
        a < b => TupleSet(triangles[a]) # TupleSet(triangles[b])

\* C9: the windows (i_k, i_k+1, i_k+2) of a strip are visited in increasing k,
\* all of them, and a kept window is emitted as (i_k, i_k+1, i_k+2) when k is
\* even and as (i_k+1, i_k, i_k+2) when k is odd, k being the window's position
\* in the strip whether or not earlier windows were skipped; the strip
\* [0,1,2,3,4] yields (0,1,2), (2,1,3), (2,3,4).
C9_StripWindowsAlternate ==
    /\ [](strip_pc = "returned" =>
              /\ i = WindowCount(idxs)
              /\ (idxs = <<0, 1, 2, 3, 4>> =>
                      triangles = <<<<0, 1, 2>>, <<2, 1, 3>>, <<2, 3, 4>>>>))
    /\ [][i' # i =>
              /\ i' = i + 1
              /\ \/ triangles' = triangles
                 \/ triangles' = Append(triangles, WindowTriangle(idxs, i))]_vars

\* C9 witness: the strip [0,0,1,2,3] was decoded; its window 0 was skipped and
\* window 1 still came out in the odd winding.
C9_Witness ==
    /\ strip_pc = "returned"
    /\ idxs = <<0, 0, 1, 2, 3>>
    /\ triangles = <<<<1, 0, 2>>, <<1, 2, 3>>>>

\* C10: every triangle emitted by triangle_strips_to_polys has three pairwise
\* distinct indices, and a strip shorter than 3 indices yields no triangle.
C10_TrianglesAreNonDegenerate ==
    /\ \A t \in DOMAIN triangles :
           /\ triangles[t][1] # triangles[t][2]
           /\ triangles[t][1] # triangles[t][3]
           /\ triangles[t][2] # triangles[t][3]
    /\ (strip_pc = "returned" /\ Len(idxs) < 3) => triangles = <<>>

\* C10 witness: a strip with a window of repeated indices was decoded to the
\* end and only its window of distinct indices was kept.
C10_Witness ==
    /\ strip_pc = "returned"
    /\ idxs = <<2, 2, 1, 0>>
    /\ triangles = <<<<1, 2, 0>>>>

\* C11: for every strip s, flattening the triangles triangle_strips_to_polys
\* returned into a triangle list and decoding that list with
\* triangles_to_polys returns the same triangles, in the same order and
\* winding.
C11_RelistedStripIsUnchanged ==
    strip_pc = "relisted" => polys = triangles

\* C11 witness: a strip that yields three triangles, one of them in the odd
\* winding, was decoded, flattened and decoded again as a list.
C11_Witness ==
    /\ strip_pc = "relisted"
    /\ idxs = <<0, 1, 2, 3, 4>>
    /\ polys = <<<<0, 1, 2>>, <<2, 1, 3>>, <<2, 3, 4>>>>

-----------------------------------------------------------------------------
(* triangles_to_polys on its own: an index list in, triangles out.         *)

InitTriangleList ==
    /\ AssemblyIdle
    /\ CodecIdle
    /\ ReaderIdle
    /\ idxs \in SeqsUpTo(0..MaxIndex, MaxStripLen)
    /\ i = 0
    /\ triangles = <<>>
    /\ strip_pc = "list"
    /\ polys = <<>>

\* polys = triangles_to_polys(idxs)
TriangleListDecode ==
    /\ strip_pc = "list"
    /\ polys' = triangles_to_polys(idxs)
    /\ strip_pc' = "listed"
    /\ UNCHANGED <<idxs, i, triangles, codecVars, readerVars, assemblyVars>>

NextTriangleList == TriangleListDecode

SpecTriangleList == InitTriangleList /\ [][NextTriangleList]_vars

-----------------------------------------------------------------------------
(* add_meshes: one mesh of the geometry reader becomes one MeshData.  A    *)
(* vertex of the reader is a dict; an absent key reads as None.  Weights   *)
(* and the fourth position channel are floats in the source and whole      *)
(* numbers here; the code only tests a weight against 0 and truncates the  *)
(* channel.  Normals and the unknown vertex usages are copied as they are  *)
(* and are left out.                                                       *)

\* VertexGroup(bone_idx, vertex_indices, weights)
VertexGroup(bone_idx, vertex_indices, weights) ==
    [bone_idx |-> bone_idx, vertex_indices |-> vertex_indices, weights |-> weights]

\* Vertex(position, normal, UV, vertex_groups, weights)
Vertex(position, UV, vertex_groups, weights) ==
    [position |-> position, UV |-> UV, vertex_groups |-> vertex_groups,
     vertex_group_weights |-> weights]

\* the whole of triangle_strips_to_polys: the loop body over every window
RECURSIVE strip_loop(_, _, _)
strip_loop(strip, n, kept) ==
    IF n >= WindowCount(strip) THEN kept
    ELSE strip_loop(strip, n + 1, strip_iteration(strip, n, kept))

triangle_strips_to_polys(strip) == strip_loop(strip, 0, <<>>)

\* triangle_converters[polygon_data_type](polygon_data)
triangle_converters(polygon_data_type, polygon_data) ==
    IF polygon_data_type = "Triangles" THEN Returned(triangles_to_polys(polygon_data))
    ELSE IF polygon_data_type = "TriangleStrips"
    THEN Returned(triangle_strips_to_polys(polygon_data))
    ELSE Raised("KeyError")

\* line 107 without the division
vertex_group_idx_unscaled(three_x_bone_id) == three_x_bone_id

\* vertex_group_idx = three_x_bone_id // 3
vertex_group_idx_of(three_x_bone_id) == three_x_bone_id \div 3

\* line 117 without the division
bone_idx_unscaled(pos) == pos[4]

\* bone_idx = int(pos[3]) // 3
bone_idx_of(pos) == pos[4] \div 3

\* vertex_groups[idx].vertex_indices.append(v); vertex_groups[idx].weights.append(w)
AppendToGroup(groups, idx, v, w) ==
    [groups EXCEPT ![idx + 1].vertex_indices = Append(@, v),
                   ![idx + 1].weights = Append(@, w)]

Min(a, b) == IF a <= b THEN a ELSE b

\* the loop of lines 104-110 with the weight test of line 105 removed
RECURSIVE add_weighted_pairs_keeping_zero(_, _, _, _, _)
add_weighted_pairs_keeping_zero(groups, vgroups, weights, j, v) ==
    IF j > Min(Len(vgroups), Len(weights))
    THEN [exc |-> "None", groups |-> groups, vgroups |-> vgroups]
    ELSE LET idx == vertex_group_idx_of(vgroups[j])
             marked == [vgroups EXCEPT ![j] = idx]
         IN  IF idx >= Len(groups)
             THEN [exc |-> "IndexError", groups |-> groups, vgroups |-> marked]
             ELSE add_weighted_pairs_keeping_zero(
                      AppendToGroup(groups, idx, v, weights[j]), marked, weights, j + 1, v)

\* lines 104-110: the pairs of zip(vgroups, weights) from pair j on, for
\* vertex v; vgroups[j] is overwritten in the reader's own list
RECURSIVE add_weighted_pairs(_, _, _, _, _)
add_weighted_pairs(groups, vgroups, weights, j, v) ==
    IF j > Min(Len(vgroups), Len(weights))
    THEN [exc |-> "None", groups |-> groups, vgroups |-> vgroups]
    ELSE IF weights[j] = 0
    THEN add_weighted_pairs(groups, vgroups, weights, j + 1, v)
    ELSE LET idx == vertex_group_idx_of(vgroups[j])
             marked == [vgroups EXCEPT ![j] = idx]
         IN  IF idx >= Len(groups)
             THEN [exc |-> "IndexError", groups |-> groups, vgroups |-> marked]
             ELSE add_weighted_pairs(
                      AppendToGroup(groups, idx, v, weights[j]), marked, weights, j + 1, v)

\* lines 93-121 for vertex v (counted from 0) of a mesh whose weight layout
\* is `mode`: the vertex groups after it, the vertex as the reader holds it
\* after it, and the Vertex appended
add_vertex(groups, vertex, v, mode) ==
    LET pos == vertex.Position
        uv == IF vertex.UV = NoneValue THEN NoneValue
              ELSE List(<<vertex.UV.v[1], 1 - vertex.UV.v[Len(vertex.UV.v)]>>)
        stored(vg, w) == Vertex(Slice(pos, 0, 3), uv, vg, w)
    IN  IF vertex.WeightedBoneID # NoneValue
        THEN LET r == add_weighted_pairs(groups, vertex.WeightedBoneID.v,
                                         vertex.BoneWeight.v, 1, v)
                 seen == [vertex EXCEPT !.WeightedBoneID = List(r.vgroups)]
             IN  [exc |-> r.exc, groups |-> r.groups, vertex |-> seen,
                  stored |-> stored(List(r.vgroups), vertex.BoneWeight)]
        ELSE IF mode = 0
        THEN IF Len(groups) = 0
             THEN [exc |-> "IndexError", groups |-> groups, vertex |-> vertex,
                   stored |-> stored(List(<<0>>), vertex.BoneWeight)]
             ELSE [exc |-> "None", groups |-> AppendToGroup(groups, 0, v, 1),
                   vertex |-> vertex, stored |-> stored(List(<<0>>), vertex.BoneWeight)]
        ELSE IF mode = 1
        THEN IF Len(pos) < 4
             THEN [exc |-> "IndexError", groups |-> groups, vertex |-> vertex,
                   stored |-> stored(NoneValue, vertex.BoneWeight)]
             ELSE IF bone_idx_of(pos) >= Len(groups)
             THEN [exc |-> "IndexError", groups |-> groups, vertex |-> vertex,
                   stored |-> stored(List(<<bone_idx_of(pos)>>), vertex.BoneWeight)]
             ELSE [exc |-> "None",
                   groups |-> AppendToGroup(groups, bone_idx_of(pos), v, 1),
                   vertex |-> vertex,
                   stored |-> stored(List(<<bone_idx_of(pos)>>), vertex.BoneWeight)]
        ELSE [exc |-> "None", groups |-> groups, vertex |-> vertex,
              stored |-> stored(NoneValue, vertex.BoneWeight)]

MaxVertices == 2

\* a vertex as the reader returns it
ReadVertex(position, uv, ids, weights) ==
    [Position |-> position, UV |-> uv, WeightedBoneID |-> ids, BoneWeight |-> weights]

\* vertices with explicit bone-id/weight arrays, and vertices without them
\* whose position has no fourth channel or one of 2, 4, 7
VertexSamples ==
    { ReadVertex(<<0, 0, 0>>, NoneValue, List(<<7, 0>>), List(<<1, 0>>)),
      ReadVertex(<<0, 0, 0>>, NoneValue, List(<<3, 6>>), List(<<1, 2>>)),
      ReadVertex(<<0, 0, 0>>, NoneValue, List(<<4, 4>>), List(<<1, 1>>)),
      ReadVertex(<<0, 0, 0>>, List(<<1, 0>>), NoneValue, NoneValue),
      ReadVertex(<<0, 0, 0, 2>>, NoneValue, NoneValue, NoneValue),
      ReadVertex(<<0, 0, 0, 4>>, NoneValue, NoneValue, NoneValue),
      ReadVertex(<<0, 0, 0, 7>>, NoneValue, NoneValue, NoneValue) }

\* the weights a stored pair can carry
WeightVals == {0, 1, 2}

\* mesh.weighted_bone_idxs: the bones the mesh is weighted to
WeightedBoneIdxSamples == {<<>>, <<0>>, <<0, 1, 2>>, <<4, 2, 5>>}

\* mesh.polygon_data_type and mesh.polygon_data
PolygonSamples ==
    { <<"Triangles", <<0, 1, 1>>>>, <<"Triangles", <<0, 1, 5>>>>,
      <<"TriangleStrips", <<0, 1, 2, 1>>>>, <<"Quads", <<>>>> }

\* imported_namedata.bone_names, imported_skeldata.parent_bones and the
\* number of entries of imported_geomdata.bone_data
SkeletonInputs ==
    { <<names, relations, n>> :
        names \in {<<>>, <<"bone_0", "bone_1", "bone_2">>},
        relations \in {<<>>, <<<<0, -1>>, <<1, 0>>, <<2, 1>>>>},
        n \in {0, 3} }

ReadMeshes ==
    { [weighted_bone_idxs |-> bones, vertex_data |-> vertices,
       max_vertex_groups_per_vertex |-> mode,
       polygon_data_type |-> polygon[1], polygon_data |-> polygon[2],
       material_id |-> 0] :
        bones \in WeightedBoneIdxSamples,
        vertices \in SeqsUpTo(VertexSamples, MaxVertices),
        mode \in {0, 1, 2},
        polygon \in PolygonSamples }

InitMesh ==
    /\ CodecIdle
    /\ ReaderIdle
    /\ MatIdle
    /\ StripIdle
    /\ SkelIdle
    /\ AnimIdle
    /\ ImportIdle
    /\ GenIdle
    /\ mesh \in ReadMeshes
    /\ current_IF_mesh = MeshData
    /\ vertex_i = 0
    /\ mesh_pc = "new"

\* model_data.new_mesh() and one empty vertex group per weighted bone
MeshNew ==
    /\ mesh_pc = "new"
    /\ current_IF_mesh' =
           [MeshData EXCEPT !.vertex_groups =
               [k \in 1..Len(mesh.weighted_bone_idxs) |->
                   VertexGroup(mesh.weighted_bone_idxs[k], <<>>, <<>>)]]
    /\ mesh_pc' = "vertices"
    /\ UNCHANGED <<mesh, vertex_i, skelVars, animVars, importVars, genVars, codecVars, readerVars, stripVars, matVars>>

\* one pass of the vertex loop
MeshVertex ==
    /\ mesh_pc = "vertices"
    /\ vertex_i < Len(mesh.vertex_data)
    /\ LET r == add_vertex(current_IF_mesh.vertex_groups, mesh.vertex_data[vertex_i + 1],
                           vertex_i, mesh.max_vertex_groups_per_vertex)
       IN  /\ mesh' = [mesh EXCEPT !.vertex_data[vertex_i + 1] = r.vertex]
           /\ IF r.exc = "None"
              THEN /\ current_IF_mesh' =
                          [current_IF_mesh EXCEPT !.vertex_groups = r.groups,
                                                  !.vertices = Append(@, r.stored)]
                   /\ vertex_i' = vertex_i + 1
                   /\ mesh_pc' = "vertices"
              ELSE /\ current_IF_mesh' = [current_IF_mesh EXCEPT !.vertex_groups = r.groups]
                   /\ vertex_i' = vertex_i
                   /\ mesh_pc' = r.exc
    /\ UNCHANGED <<skelVars, animVars, importVars, genVars, codecVars, readerVars, stripVars, matVars>>

\* Polygon(indices)
Polygon(indices) == [indices |-> indices]

\* the vertices are exhausted: convert the polygon data, set the material id
MeshPolygons ==
    /\ mesh_pc = "vertices"
    /\ vertex_i = Len(mesh.vertex_data)
    /\ LET r == triangle_converters(mesh.polygon_data_type, mesh.polygon_data)
       IN  IF IsRaised(r)
           THEN /\ mesh_pc' = r.exc
                /\ UNCHANGED current_IF_mesh
           ELSE /\ current_IF_mesh' =
                       [current_IF_mesh EXCEPT
                           !.polygons = [k \in 1..Len(Value(r)) |-> Polygon(Value(r)[k])],
                           !.material_id = mesh.material_id]
                /\ mesh_pc' = "meshes_added"
    /\ UNCHANGED <<mesh, vertex_i, skelVars, animVars, importVars, genVars, codecVars, readerVars, stripVars, matVars>>

\* the keys lines 206-212 put into skeleton.unknown_data
SkeletonUnknownKeys ==
    {"unknown_0x0C", "unknown_parent_child_data", "bone_data", "unknown_data_1",
     "unknown_data_2", "unknown_data_3", "unknown_data_4"}

\* add_skeleton: the names and relations are stored, then the loop over the
\* geometry file's bone transforms appends to skeleton.bone_positions, an
\* attribute Skeleton() does not have; the unknown data follow the loop
add_skeleton(skel, bone_names, parent_bones, bone_data_count) ==
    LET stored == [skel EXCEPT !.bone_names = bone_names,
                               !.bone_relations = parent_bones,
                               !.unknown_data = @ \cup {"transforms"}]
    IN  IF bone_data_count > 0
        THEN [exc |-> "AttributeError", skeleton |-> stored]
        ELSE [exc |-> "None",
              skeleton |-> [stored EXCEPT !.unknown_data = @ \cup SkeletonUnknownKeys]]

AddSkeleton ==
    /\ mesh_pc = "meshes_added"
    /\ \E input \in SkeletonInputs :
           LET r == add_skeleton(skeleton, input[1], input[2], input[3])
           IN  /\ skeleton' = r.skeleton
               /\ mesh_pc' = IF r.exc = "None" THEN "skeleton_added" ELSE r.exc
    /\ UNCHANGED <<mesh, current_IF_mesh, vertex_i, animVars, importVars, genVars, codecVars, readerVars, stripVars, matVars>>

NextMesh == MeshNew \/ MeshVertex \/ MeshPolygons \/ AddSkeleton

SpecMesh == InitMesh /\ [][NextMesh]_vars

\* add_meshes and add_skeleton have both returned
AssemblyCompleted == mesh_pc = "skeleton_added"

\* C16: when assembly completes, every polygon index is below the vertex
\* count of its mesh and every VertexGroup bone id is below the number of
\* skeleton bones; out-of-range input makes assembly fail.
C16_CrossReferencesInRange ==
    AssemblyCompleted =>
        /\ \A p \in 1..Len(current_IF_mesh.polygons) : \A k \in 1..3 :
               current_IF_mesh.polygons[p].indices[k] < Len(current_IF_mesh.vertices)
        /\ \A g \in 1..Len(current_IF_mesh.vertex_groups) :
               current_IF_mesh.vertex_groups[g].bone_idx < Len(skeleton.bone_names)

\* the places <<g, k>> (group g, entry k, both from 1) where vertex v is listed
PlacesOf(v) ==
    UNION { { <<g, k>> : k \in { n \in 1..Len(current_IF_mesh.vertex_groups[g].vertex_indices) :
                                   current_IF_mesh.vertex_groups[g].vertex_indices[n] = v } } :
            g \in 1..Len(current_IF_mesh.vertex_groups) }

\* vertex v (from 0) went through the mode-1 branch of the vertex loop
IsModeOneVertex(v) ==
    /\ mesh_pc \in {"vertices", "meshes_added", "skeleton_added"}
    /\ mesh.max_vertex_groups_per_vertex = 1
    /\ v < vertex_i
    /\ mesh.vertex_data[v + 1].WeightedBoneID = NoneValue

\* C18 as stated: in weight-layout mode 1 each vertex is in exactly one
\* vertex group, the one for bone floor(raw / 3), with weight 1.
C18_ModeOneGroupIsForBoneRawDiv3 ==
    \A v \in 0..(MaxVertices - 1) :
        IsModeOneVertex(v) =>
            /\ Cardinality(PlacesOf(v)) = 1
            /\ \A gk \in PlacesOf(v) :
                   /\ current_IF_mesh.vertex_groups[gk[1]].bone_idx
                          = mesh.vertex_data[v + 1].Position[4] \div 3
                   /\ current_IF_mesh.vertex_groups[gk[1]].weights[gk[2]] = 1

\* C18 amended: in weight-layout mode 1 each vertex is in exactly one vertex
\* group, the one at position floor(raw / 3) (from 0) of the mesh's vertex
\* group list, with weight 1; that group is for the bone
\* weighted_bone_idxs[floor(raw / 3)].
C18_ModeOneGroupIsAtPositionRawDiv3 ==
    \A v \in 0..(MaxVertices - 1) :
        IsModeOneVertex(v) =>
            /\ Cardinality(PlacesOf(v)) = 1
            /\ \A gk \in PlacesOf(v) :
                   /\ gk[1] - 1 = mesh.vertex_data[v + 1].Position[4] \div 3
                   /\ current_IF_mesh.vertex_groups[gk[1]].bone_idx
                          = mesh.weighted_bone_idxs[(mesh.vertex_data[v + 1].Position[4] \div 3) + 1]
                   /\ current_IF_mesh.vertex_groups[gk[1]].weights[gk[2]] = 1

\* C18 witness: a mode-1 vertex with raw value 7 is listed, with weight 1, in
\* the third group of a mesh weighted to bones 4, 2, 5: the group of bone 5.
C18_Witness ==
    /\ mesh_pc = "meshes_added"
    /\ mesh.max_vertex_groups_per_vertex = 1
    /\ mesh.weighted_bone_idxs = <<4, 2, 5>>
    /\ Len(mesh.vertex_data) = 1
    /\ mesh.vertex_data[1].Position = <<0, 0, 0, 7>>
    /\ current_IF_mesh.vertex_groups[3] = VertexGroup(5, <<0>>, <<1>>)

\* how often the pair (v, w) is listed in group g (from 1) of `groups`
PairCount(groups, g, v, w) ==
    Cardinality({ k \in 1..Len(groups[g].vertex_indices) :
                    groups[g].vertex_indices[k] = v /\ groups[g].weights[k] = w })

\* how many (bone entry, weight) pairs of a read vertex carry weight w and
\* select group g (from 1)
SelectingPairs(vertex, g, w) ==
    Cardinality({ j \in 1..Min(Len(vertex.WeightedBoneID.v), Len(vertex.BoneWeight.v)) :
                    /\ vertex.BoneWeight.v[j] = w
                    /\ vertex.WeightedBoneID.v[j] \div 3 = g - 1 })

\* C19: with explicit bone-id/weight arrays no weight of 0 is stored, and a
\* pass of the vertex loop over vertex i stores each of its pairs with a
\* non-zero weight exactly once, as (i, weight), in the vertex group selected
\* by floor(raw bone value / 3).
C19_NonZeroPairsStoredOnce ==
    /\ [](\A g \in 1..Len(current_IF_mesh.vertex_groups) :
              \A k \in 1..Len(current_IF_mesh.vertex_groups[g].weights) :
                  current_IF_mesh.vertex_groups[g].weights[k] # 0)
    /\ [][(/\ mesh_pc = "vertices"
           /\ vertex_i < Len(mesh.vertex_data)
           /\ mesh.vertex_data[vertex_i + 1].WeightedBoneID # NoneValue
           /\ vertex_i' = vertex_i + 1)
          => \A g \in 1..Len(current_IF_mesh.vertex_groups) : \A w \in WeightVals :
                 PairCount(current_IF_mesh.vertex_groups', g, vertex_i, w)
                     = IF w = 0 THEN 0
                       ELSE SelectingPairs(mesh.vertex_data[vertex_i + 1], g, w)]_vars

\* C19 witness: vertex 0 came with bone entries 7, 0 and weights 1, 0; it is
\* listed once, with weight 1, in the third group and nowhere else.
C19_Witness ==
    /\ mesh_pc = "vertices"
    /\ vertex_i = 1
    /\ current_IF_mesh.vertices[1].vertex_group_weights = List(<<1, 0>>)
    /\ current_IF_mesh.vertices[1].vertex_groups = List(<<2, 0>>)
    /\ current_IF_mesh.vertex_groups[3].vertex_indices = <<0>>
    /\ current_IF_mesh.vertex_groups[3].weights = <<1>>
    /\ current_IF_mesh.vertex_groups[1].vertex_indices = <<>>

-----------------------------------------------------------------------------
(* add_anims: one clip of the animation reader becomes one Animation.  A   *)
(* dict keyed by bone is a function on 0..num_bones-1; values are opaque   *)
(* tokens; a bitmask is a sequence of the characters "0" and "1".          *)

\* FCurve(frames, values)
FCurve(frames, values) == [frames |-> frames, values |-> values]

\* {bone_idx: [] for bone_idx in range(num_bones)}
EmptyCurves(num_bones) == [b \in 0..(num_bones - 1) |-> <<>>]

\* list(chunks(lst, n)) for n > 0
chunks(lst, n) ==
    [k \in 1..((Len(lst) + n - 1) \div n) |-> Slice(lst, n * (k - 1), n * k)]

\* line 258 with the offset counted from the block's cumulative frame itself
RECURSIVE mask_frames_from_boundary(_, _, _)
mask_frames_from_boundary(mask, cumulative_frames, j) ==
    IF j >= Len(mask) THEN <<>>
    ELSE (IF mask[j + 1] = "1" THEN <<j + cumulative_frames>> ELSE <<>>)
             \o mask_frames_from_boundary(mask, cumulative_frames, j + 1)

\* [j+cumulative_frames+1 for j, elem in enumerate(mask) if elem == '1'],
\* from position j on
RECURSIVE mask_frames(_, _, _)
mask_frames(mask, cumulative_frames, j) ==
    IF j >= Len(mask) THEN <<>>
    ELSE (IF mask[j + 1] = "1" THEN <<j + cumulative_frames + 1>> ELSE <<>>)
             \o mask_frames(mask, cumulative_frames, j + 1)

\* for bone_idx, value in zip(bone_idxs, vals): frames[bone_idx].append(frame);
\* values[bone_idx].append(value) -- from pair p on
RECURSIVE append_samples(_, _, _, _, _, _)
append_samples(frames, values, bone_idxs, vals, frame, p) ==
    IF p > Min(Len(bone_idxs), Len(vals))
    THEN [exc |-> "None", frames |-> frames, values |-> values]
    ELSE IF bone_idxs[p] \notin DOMAIN frames
    THEN [exc |-> "KeyError", frames |-> frames, values |-> values]
    ELSE append_samples([frames EXCEPT ![bone_idxs[p]] = Append(@, frame)],
                        [values EXCEPT ![bone_idxs[p]] = Append(@, vals[p])],
                        bone_idxs, vals, frame, p + 1)

\* lines 227-229 with the initial pose put at frame 1
add_initial_pose_at_frame_one(frames, values, bone_idxs, vals) ==
    append_samples(frames, values, bone_idxs, vals, 1, 1)

\* lines 227-229 (230-232, 233-235): the initial pose of one channel
add_initial_pose(frames, values, bone_idxs, vals) ==
    append_samples(frames, values, bone_idxs, vals, 0, 1)

\* for bone_idx, mask in zip(bone_idxs, masks): the frames of the mask and as
\* many values of the stream are added to the bone's lists -- from bone p on.
\* masks and stream are what the shared iterators still hold.
RECURSIVE extend_with_masks(_, _, _, _, _, _, _)
extend_with_masks(frames, values, bone_idxs, masks, stream, cumulative_frames, p) ==
    IF p > Len(bone_idxs) \/ masks = <<>>
    THEN [exc |-> "None", frames |-> frames, values |-> values,
          masks |-> masks, stream |-> stream]
    ELSE LET new == mask_frames(Head(masks), cumulative_frames, 0)
         IN  IF bone_idxs[p] \notin DOMAIN frames
             THEN [exc |-> "KeyError", frames |-> frames, values |-> values,
                   masks |-> Tail(masks), stream |-> stream]
             ELSE extend_with_masks(
                      [frames EXCEPT ![bone_idxs[p]] = @ \o new],
                      [values EXCEPT ![bone_idxs[p]] = @ \o Slice(stream, 0, Len(new))],
                      bone_idxs, Tail(masks), Slice(stream, Len(new), Len(stream)),
                      cumulative_frames, p + 1)

\* one zip loop of lines 227-247 on the lists named ff and vf, skipped when an
\* earlier loop raised
stage_append(st, ff, vf, bone_idxs, vals, frame) ==
    IF st.exc # "None" THEN st
    ELSE LET r == append_samples(st.fc[ff], st.fc[vf], bone_idxs, vals, frame, 1)
         IN  [st EXCEPT !.exc = r.exc,
                        !.fc = [st.fc EXCEPT ![ff] = r.frames, ![vf] = r.values]]

\* lines 227-229 on the lists named ff and vf
stage_initial_pose(st, ff, vf, bone_idxs, vals) ==
    IF st.exc # "None" THEN st
    ELSE LET r == add_initial_pose(st.fc[ff], st.fc[vf], bone_idxs, vals)
         IN  [st EXCEPT !.exc = r.exc,
                        !.fc = [st.fc EXCEPT ![ff] = r.frames, ![vf] = r.values]]

\* one zip loop of lines 257-271 on the lists named ff and vf
stage_masks(st, ff, vf, bone_idxs, stream, cumulative_frames) ==
    IF st.exc # "None" THEN st
    ELSE LET r == extend_with_masks(st.fc[ff], st.fc[vf], bone_idxs, st.masks, stream,
                                    cumulative_frames, 1)
         IN  [st EXCEPT !.exc = r.exc, !.masks = r.masks,
                        !.fc = [st.fc EXCEPT ![ff] = r.frames, ![vf] = r.values]]

\* lines 219-235: the six dicts and the initial poses of the three channels
initial_poses(reader) ==
    LET empty == EmptyCurves(reader.num_bones)
        s0 == [exc |-> "None", masks |-> <<>>,
               fc |-> [rotation_fcurves_frames |-> empty, rotation_fcurves_values |-> empty,
                       location_fcurves_frames |-> empty, location_fcurves_values |-> empty,
                       scale_fcurves_frames |-> empty, scale_fcurves_values |-> empty]]
        s1 == stage_initial_pose(s0, "rotation_fcurves_frames", "rotation_fcurves_values",
                  reader.initial_pose_rotations_bone_idxs, reader.initial_pose_bone_rotations)
        s2 == stage_initial_pose(s1, "location_fcurves_frames", "location_fcurves_values",
                  reader.initial_pose_locations_bone_idxs, reader.initial_pose_bone_locations)
    IN  stage_initial_pose(s2, "scale_fcurves_frames", "scale_fcurves_values",
            reader.initial_pose_scales_bone_idxs, reader.initial_pose_bone_scales)

\* lines 238-271: block k (from 1) pairs keyframe_counts[k] with substructure k
keyframe_block(fc, reader, k) ==
    LET cumulative_frames == reader.keyframe_counts[k][1]
        nframes == reader.keyframe_counts[k][2]
        substructure == reader.unknown_data_8[k]
        s0 == [exc |-> "None", fc |-> fc,
               masks |-> IF nframes # 0 THEN chunks(substructure.unknown_data_5, nframes)
                         ELSE <<>>]
        s1 == stage_append(s0, "rotation_fcurves_frames", "rotation_fcurves_values",
                  reader.keyframe_rotations_bone_idxs, substructure.unknown_data_1,
                  cumulative_frames)
        s2 == stage_append(s1, "location_fcurves_frames", "location_fcurves_values",
                  reader.keyframe_locations_bone_idxs, substructure.unknown_data_2,
                  cumulative_frames)
        s3 == stage_append(s2, "scale_fcurves_frames", "scale_fcurves_values",
                  reader.keyframe_scales_bone_idxs, substructure.unknown_data_3,
                  cumulative_frames)
        s4 == stage_masks(s3, "rotation_fcurves_frames", "rotation_fcurves_values",
                  reader.keyframe_rotations_bone_idxs, substructure.unknown_data_6,
                  cumulative_frames)
        s5 == stage_masks(s4, "location_fcurves_frames", "location_fcurves_values",
                  reader.keyframe_locations_bone_idxs, substructure.unknown_data_7,
                  cumulative_frames)
    IN  stage_masks(s5, "scale_fcurves_frames", "scale_fcurves_values",
            reader.keyframe_scales_bone_idxs, substructure.unknown_data_8,
            cumulative_frames)

\* the number of passes of a loop that zips the counts with all substructures
BlockCount_through_last(reader) ==
    Min(Len(reader.keyframe_counts), Len(reader.unknown_data_8))

\* the number of passes of the loop of line 237:
\* zip(ar.keyframe_counts, ar.unknown_data_8[:-1])
BlockCount(reader) ==
    Min(Len(reader.keyframe_counts),
        IF Len(reader.unknown_data_8) = 0 THEN 0 ELSE Len(reader.unknown_data_8) - 1)

MaxBlocks == 2

MaxSubstructures == 3

NumBones == 2

\* one channel of a clip: the initial-pose bone list with its values and the
\* list of bones that have keyframes.  The last sample names a bone the clip
\* does not have.
ChannelSamples ==
    { [init_idxs |-> <<>>, init_vals |-> <<>>, key_idxs |-> <<0>>],
      [init_idxs |-> <<1>>, init_vals |-> <<"i1">>, key_idxs |-> <<0>>],
      [init_idxs |-> <<1, 0>>, init_vals |-> <<"i1", "i2">>, key_idxs |-> <<0, 1>>],
      [init_idxs |-> <<0>>, init_vals |-> <<"i1">>, key_idxs |-> <<1, NumBones>>] }

\* the channels a clip is built from: bones 0..NumBones-1 only, except in the
\* rotation channel
RotationSamples == ChannelSamples

LocationSamples == {c \in ChannelSamples : \A p \in DOMAIN c.key_idxs : c.key_idxs[p] < NumBones}

ScaleSamples == {c \in LocationSamples : c.init_idxs # <<>>}

\* (cumulative frame, span) entries of ar.keyframe_counts
KeyframeCountVals == {<<10, 4>>, <<3, 2>>, <<15, 0>>}

\* a keyframe substructure: the values at the block boundary
\* (unknown_data_1..3), the bitmask text (unknown_data_5) and the flat value
\* streams (unknown_data_6..8)
Substructure(boundary, masks, stream) ==
    [unknown_data_1 |-> boundary, unknown_data_2 |-> boundary, unknown_data_3 |-> boundary,
     unknown_data_5 |-> masks,
     unknown_data_6 |-> stream, unknown_data_7 |-> stream, unknown_data_8 |-> stream]

SubstructureSamples ==
    { Substructure(<<"k1", "k2">>, <<"1", "0", "1", "0", "0", "1", "1", "0">>,
                   <<"f1", "f2", "f3", "f4">>),
      Substructure(<<"k1", "k2">>, <<>>, <<>>),
      Substructure(<<"k1">>, <<"1", "1", "1", "1">>, <<"f1">>) }

\* what the animation reader of one clip holds after read()
AnimReaders ==
    { [num_bones |-> NumBones,
       initial_pose_rotations_bone_idxs |-> r.init_idxs,
       initial_pose_bone_rotations |-> r.init_vals,
       initial_pose_locations_bone_idxs |-> l.init_idxs,
       initial_pose_bone_locations |-> l.init_vals,
       initial_pose_scales_bone_idxs |-> sc.init_idxs,
       initial_pose_bone_scales |-> sc.init_vals,
       keyframe_rotations_bone_idxs |-> r.key_idxs,
       keyframe_locations_bone_idxs |-> l.key_idxs,
       keyframe_scales_bone_idxs |-> sc.key_idxs,
       keyframe_counts |-> counts,
       unknown_data_8 |-> subs] :
        r \in RotationSamples, l \in LocationSamples, sc \in ScaleSamples,
        counts \in SeqsUpTo(KeyframeCountVals, MaxBlocks),
        subs \in SeqsUpTo(SubstructureSamples, MaxSubstructures) }

InitAnim ==
    /\ CodecIdle
    /\ ReaderIdle
    /\ MatIdle
    /\ StripIdle
    /\ MeshIdle
    /\ SkelIdle
    /\ ImportIdle
    /\ GenIdle
    /\ ar \in AnimReaders
    /\ fcurves = NoneValue
    /\ block_k = 0
    /\ anim_pc = "start"
    /\ ad = Animation

\* model_data.new_anim(key), the six dicts, the three initial-pose loops
AnimInitialPose ==
    /\ anim_pc = "start"
    /\ LET r == initial_poses(ar)
       IN  /\ fcurves' = r.fc
           /\ anim_pc' = IF r.exc = "None" THEN "blocks" ELSE r.exc
    /\ UNCHANGED <<ar, block_k, ad, meshVars, skelVars, importVars, genVars, codecVars, readerVars, stripVars, matVars>>

\* one pass of the loop over the keyframe blocks
AnimBlock ==
    /\ anim_pc = "blocks"
    /\ block_k < BlockCount(ar)
    /\ LET r == keyframe_block(fcurves, ar, block_k + 1)
       IN  /\ fcurves' = r.fc
           /\ block_k' = IF r.exc = "None" THEN block_k + 1 ELSE block_k
           /\ anim_pc' = IF r.exc = "None" THEN "blocks" ELSE r.exc
    /\ UNCHANGED <<ar, ad, meshVars, skelVars, importVars, genVars, codecVars, readerVars, stripVars, matVars>>

\* the blocks are exhausted: one FCurve per bone and channel
AnimFinish ==
    /\ anim_pc = "blocks"
    /\ block_k = BlockCount(ar)
    /\ ad' = [ad EXCEPT
                 !.rotations = [b \in 0..(ar.num_bones - 1) |->
                     FCurve(fcurves.rotation_fcurves_frames[b],
                            fcurves.rotation_fcurves_values[b])],
                 !.locations = [b \in 0..(ar.num_bones - 1) |->
                     FCurve(fcurves.location_fcurves_frames[b],
                            fcurves.location_fcurves_values[b])],
                 !.scales = [b \in 0..(ar.num_bones - 1) |->
                     FCurve(fcurves.scale_fcurves_frames[b],
                            fcurves.scale_fcurves_values[b])]]
    /\ anim_pc' = "done"
    /\ UNCHANGED <<ar, fcurves, block_k, meshVars, skelVars, importVars, genVars, codecVars, readerVars, stripVars, matVars>>

NextAnim == AnimInitialPose \/ AnimBlock \/ AnimFinish

SpecAnim == InitAnim /\ [][NextAnim]_vars

\* the curves of a finished clip, all channels
CurvesOf(anim) ==
    {anim.rotations[b] : b \in DOMAIN anim.rotations}
        \cup {anim.locations[b] : b \in DOMAIN anim.locations}
        \cup {anim.scales[b] : b \in DOMAIN anim.scales}

\* C13: after add_anims, in every curve of every bone the frame numbers are
\* strictly increasing, whatever keyframe blocks the reader returned.
C13_FramesStrictlyIncrease ==
    anim_pc = "done" =>
        \A curve \in CurvesOf(ad) :
            \A k \in 1..(Len(curve.frames) - 1) : curve.frames[k] < curve.frames[k + 1]

\* the members of a set of numbers, in increasing order
RECURSIVE SortedSeq(_)
SortedSeq(S) ==
    IF S = {} THEN <<>>
    ELSE LET least == CHOOSE x \in S : \A y \in S : x <= y
         IN  <<least>> \o SortedSeq(S \ {least})

\* the frames C14 gives to the n-th span-long bitmask (n from 1) of a
\* substructure's bitmask text, for a block with cumulative frame c: none
\* when the span is 0 or the text holds no n-th bitmask
ExpectedMaskFrames(substructure, c, span, n) ==
    LET mask == Slice(substructure.unknown_data_5, span * (n - 1), span * n)
    IN  IF span = 0 THEN <<>>
        ELSE SortedSeq({c + j + 1 : j \in {m \in 0..(Len(mask) - 1) : mask[m + 1] = "1"}})

\* what one pass over a keyframe block adds to the frames of the bone at
\* place p of a channel's keyframe bone list: the cumulative frame, if the
\* substructure holds a boundary value for the bone, then the frames of the
\* bone's bitmask, the (skipped + p)-th of the block
ExpectedBlockFrames(boundary, p, skipped) ==
    LET c == ar.keyframe_counts[block_k + 1][1]
        span == ar.keyframe_counts[block_k + 1][2]
    IN  (IF p <= Len(boundary) THEN <<c>> ELSE <<>>)
            \o ExpectedMaskFrames(ar.unknown_data_8[block_k + 1], c, span, skipped + p)

\* C14: a bitmask of a block with cumulative frame c contributes to its
\* bone's curve exactly the frames c + j + 1 for the 0-based positions j that
\* hold '1', in increasing j.  (No bone list of the clips has a bone twice.)
C14_MaskFramesAreOffsetByOne ==
    [][(anim_pc = "blocks" /\ block_k' = block_k + 1) =>
          LET sub == ar.unknown_data_8[block_k + 1]
              R == Len(ar.keyframe_rotations_bone_idxs)
              L == Len(ar.keyframe_locations_bone_idxs)
          IN  /\ \A p \in 1..R :
                     LET b == ar.keyframe_rotations_bone_idxs[p]
                     IN  b < ar.num_bones =>
                         fcurves'.rotation_fcurves_frames[b]
                             = fcurves.rotation_fcurves_frames[b]
                                   \o ExpectedBlockFrames(sub.unknown_data_1, p, 0)
              /\ \A p \in 1..L :
                     LET b == ar.keyframe_locations_bone_idxs[p]
                     IN  b < ar.num_bones =>
                         fcurves'.location_fcurves_frames[b]
                             = fcurves.location_fcurves_frames[b]
                                   \o ExpectedBlockFrames(sub.unknown_data_2, p, R)
              /\ \A p \in 1..Len(ar.keyframe_scales_bone_idxs) :
                     LET b == ar.keyframe_scales_bone_idxs[p]
                     IN  b < ar.num_bones =>
                         fcurves'.scale_fcurves_frames[b]
                             = fcurves.scale_fcurves_frames[b]
                                   \o ExpectedBlockFrames(sub.unknown_data_3, p, R + L)]_vars

\* C14 witness: the first block has cumulative frame 10 and span 4, the
\* bitmask of rotation bone 0 is 1010: its frames are 10 (the boundary), 11, 13.
C14_Witness ==
    /\ anim_pc = "blocks"
    /\ block_k = 1
    /\ ar.keyframe_counts[1] = <<10, 4>>
    /\ ar.keyframe_rotations_bone_idxs = <<0>>
    /\ Slice(ar.unknown_data_8[1].unknown_data_5, 0, 4) = <<"1", "0", "1", "0">>
    /\ fcurves.rotation_fcurves_frames[0] = <<10, 11, 13>>

\* the first sample of `curves[b]` is frame 0 with the value paired with the
\* first mention of b in the initial-pose list
StartsWithInitialPose(curves, bone_idxs, vals) ==
    \A p \in DOMAIN bone_idxs :
        LET b == bone_idxs[p]
            first == CHOOSE q \in DOMAIN bone_idxs :
                         bone_idxs[q] = b /\ \A n \in 1..(q - 1) : bone_idxs[n] # b
        IN  /\ Len(curves[b].frames) >= 1
            /\ Len(curves[b].values) >= 1
            /\ curves[b].frames[1] = 0
            /\ curves[b].values[1] = vals[first]

\* C15: after add_anims, for every bone listed in a channel's initial-pose
\* index list, that channel's curve for the bone has frame 0 as its first
\* sample, with the paired initial value.
C15_InitialPoseIsFirstSample ==
    anim_pc = "done" =>
        /\ StartsWithInitialPose(ad.rotations, ar.initial_pose_rotations_bone_idxs,
                                 ar.initial_pose_bone_rotations)
        /\ StartsWithInitialPose(ad.locations, ar.initial_pose_locations_bone_idxs,
                                 ar.initial_pose_bone_locations)
        /\ StartsWithInitialPose(ad.scales, ar.initial_pose_scales_bone_idxs,
                                 ar.initial_pose_bone_scales)

\* C15 witness: bone 0 is second in the initial-pose rotation list and has
\* keyframes too; its rotation curve starts with frame 0 and the second
\* initial value, and goes on with the keyframes.
C15_Witness ==
    /\ anim_pc = "done"
    /\ ar.initial_pose_rotations_bone_idxs = <<1, 0>>
    /\ Len(ad.rotations[0].frames) > 1
    /\ ad.rotations[0].frames[1] = 0
    /\ ad.rotations[0].values[1] = "i2"

-----------------------------------------------------------------------------
(* import_skeleton and import_rest_pose_skeleton: the bones of the host's  *)
(* armature are created from the skeleton of the Model.  A 4x4 matrix is   *)
(* its rotation block m[:3, :3] and its position column m[:3, 3], with     *)
(* whole-number entries.  The host's edit_bones.new adds a bone of the     *)
(* given name; a bone's parent is the place of the parent in edit_bones,   *)
(* 0 for none.  The tail of a bone is computed by the host and left out.   *)

\* key in dict, for a dict kept as its items
DictHas(items, key) == \E k \in DOMAIN items : items[k][1] = key

\* dict[key]
DictGet(items, key) ==
    items[CHOOSE k \in DOMAIN items :
              items[k][1] = key /\ \A n \in (k + 1)..Len(items) : items[n][1] # key][2]

\* m.T for a 3x3 block
Transposed(m) == [r \in 1..3 |-> [c \in 1..3 |-> m[c][r]]]

\* np.dot(m, v)
Dot(m, v) == [r \in 1..3 |-> m[r][1] * v[1] + m[r][2] * v[2] + m[r][3] * v[3]]

\* lines 163-193 (122-140): the relation with counter n (from 0) makes a new
\* bone.  import_skeleton negates the position column of the Model's own
\* matrix (pos is a view of bm) before it rotates it.
create_bone(skel, bones_dict, bones, n, which) ==
    LET child == skel.bone_relations[n + 1][1]
        parent == skel.bone_relations[n + 1][2]
        child_name == skel.bone_names[child + 1]
        bone_matrices == IF which = "import_skeleton"
                         THEN skel.inverse_bind_pose_matrices ELSE skel.rest_pose
        at == IF which = "import_skeleton" THEN child ELSE n
        failed(e) == [exc |-> e, skeleton |-> skel, list_of_bones |-> bones_dict,
                      edit_bones |-> bones]
    IN  IF at >= Len(bone_matrices) THEN failed("IndexError")
        ELSE
        LET bm == bone_matrices[at + 1]
            negated == [k \in 1..3 |-> 0 - bm.pos[k]]
            pos == Dot(Transposed(bm.rotation), negated)
            bone == IF which = "import_skeleton"
                    THEN [name |-> child_name, parent |-> 0, head |-> pos,
                          matrix |-> [rotation |-> Transposed(bm.rotation), pos |-> pos]]
                    ELSE [name |-> child_name, parent |-> 0, head |-> <<0, 0, 0>>,
                          matrix |-> bm]
            skel2 == IF which = "import_skeleton"
                     THEN [skel EXCEPT !.inverse_bind_pose_matrices[at + 1].pos = negated]
                     ELSE skel
            bones2 == Append(bones, bone)
            dict2 == Append(bones_dict, <<child_name, Len(bones2)>>)
            made(e, b) == [exc |-> e, skeleton |-> skel2, list_of_bones |-> dict2,
                           edit_bones |-> b]
        IN  IF parent = -1 THEN made("None", bones2)
            ELSE IF parent >= Len(skel.bone_names) THEN made("IndexError", bones2)
            ELSE IF ~DictHas(dict2, skel.bone_names[parent + 1]) THEN made("KeyError", bones2)
            ELSE made("None", [bones2 EXCEPT ![Len(bones2)].parent =
                                   DictGet(dict2, skel.bone_names[parent + 1])])

\* one pass of the relation loop with the test of line 160 (119) removed
import_relation_without_skip(skel, bones_dict, bones, n, which) ==
    IF skel.bone_relations[n + 1][1] >= Len(skel.bone_names)
    THEN [exc |-> "IndexError", skeleton |-> skel, list_of_bones |-> bones_dict,
          edit_bones |-> bones]
    ELSE create_bone(skel, bones_dict, bones, n, which)

\* lines 157-193 (116-140): one pass of the relation loop, n the counter
import_relation(skel, bones_dict, bones, n, which) ==
    LET child == skel.bone_relations[n + 1][1]
        same == [exc |-> "None", skeleton |-> skel, list_of_bones |-> bones_dict,
                 edit_bones |-> bones]
    IN  IF child >= Len(skel.bone_names) THEN [same EXCEPT !.exc = "IndexError"]
        ELSE IF DictHas(bones_dict, skel.bone_names[child + 1]) THEN same
        ELSE create_bone(skel, bones_dict, bones, n, which)

MaxRelations == 3

SkelBoneNames == <<"bone_0", "bone_1", "bone_2">>

\* (child, parent) entries of the relation list: parent -1 marks a root
RelationVals == {<<child, parent>> : child \in 0..2, parent \in -1..2}

\* a bone matrix: a quarter turn about z and the position (1, 2, 3)
BoneMatrix == [rotation |-> <<<<0, -1, 0>>, <<1, 0, 0>>, <<0, 0, 1>>>>, pos |-> <<1, 2, 3>>]

\* the skeleton of the Model handed to the importer: its matrices are there
\* for every bone, or not at all (add_skeleton leaves both lists empty)
SkeletonModels ==
    { [bone_names |-> SkelBoneNames, bone_relations |-> relations,
       inverse_bind_pose_matrices |-> matrices, rest_pose |-> matrices,
       unknown_data |-> keys] :
        relations \in SeqsUpTo(RelationVals, MaxRelations),
        matrices \in {<<>>, [k \in 1..Len(SkelBoneNames) |-> BoneMatrix]},
        keys \in {{}, SkeletonUnknownKeys \cup {"transforms"}} }

InitSkelImport ==
    /\ CodecIdle
    /\ ReaderIdle
    /\ MatIdle
    /\ StripIdle
    /\ MeshIdle
    /\ AnimIdle
    /\ GenIdle
    /\ skeleton \in SkeletonModels
    /\ importer \in {"import_skeleton", "import_rest_pose_skeleton"}
    /\ list_of_bones = <<>>
    /\ edit_bones = <<>>
    /\ relation_i = 0
    /\ import_pc = "loop"

\* one pass of the relation loop
ImportRelation ==
    /\ import_pc = "loop"
    /\ relation_i < Len(skeleton.bone_relations)
    /\ LET r == import_relation(skeleton, list_of_bones, edit_bones, relation_i, importer)
       IN  /\ skeleton' = r.skeleton
           /\ list_of_bones' = r.list_of_bones
           /\ edit_bones' = r.edit_bones
           /\ relation_i' = IF r.exc = "None" THEN relation_i + 1 ELSE relation_i
           /\ import_pc' = IF r.exc = "None" THEN "loop" ELSE r.exc
    /\ UNCHANGED <<importer, meshVars, animVars, genVars, codecVars, readerVars, stripVars, matVars>>

\* the relations are exhausted; import_skeleton copies five entries of the
\* skeleton's unknown data to the armature
ImportFinish ==
    /\ import_pc = "loop"
    /\ relation_i = Len(skeleton.bone_relations)
    /\ import_pc' = IF importer = "import_skeleton"
                       /\ ~({"unknown_0x0C", "unknown_data_1", "unknown_data_2",
                             "unknown_data_3", "unknown_data_4"} \subseteq skeleton.unknown_data)
                    THEN "KeyError" ELSE "done"
    /\ UNCHANGED <<importer, list_of_bones, edit_bones, relation_i, skelVars, meshVars,
                   animVars, genVars, codecVars, readerVars, stripVars, matVars>>

NextSkelImport == ImportRelation \/ ImportFinish

SpecSkelImport == InitSkelImport /\ [][NextSkelImport]_vars

\* the places in edit_bones of the bones made for child bone c
BonesOfChild(c) ==
    {k \in DOMAIN edit_bones : edit_bones[k].name = skeleton.bone_names[c + 1]}

\* the parent id of the first relation entry for child bone c
FirstParentOf(c) ==
    LET first == CHOOSE q \in DOMAIN skeleton.bone_relations :
                     /\ skeleton.bone_relations[q][1] = c
                     /\ \A n \in 1..(q - 1) : skeleton.bone_relations[n][1] # c
    IN  skeleton.bone_relations[first][2]

\* the next relation entry is for a child that an earlier entry was for
NextEntryRepeatsChild ==
    /\ import_pc = "loop"
    /\ relation_i < Len(skeleton.bone_relations)
    /\ \E q \in 1..relation_i :
           skeleton.bone_relations[q][1] = skeleton.bone_relations[relation_i + 1][1]

-----------------------------------------------------------------------------
(* generate_intermediate_format_from_files: three files are opened and     *)
(* read inside with-blocks, the directory is listed and its animation      *)
(* files are read the same way, then the five add_* steps fill a new       *)
(* IntermediateFormat.  What a reader or a step does to its data is in the *)
(* specifications above; here a call either returns or raises.  The line   *)
(* that decides which directory entries are animation files is not in the  *)
(* source as given (line 38 is indented under a missing test): an entry is *)
(* either read as an animation or passed over.                             *)

\* the steps of the function in program order, and the step after each
StepAfter ==
    [step \in {"open_name", "read_name", "open_skel", "read_skel", "open_geom",
               "read_geom", "listdir", "open_anim", "read_anim", "add_meshes",
               "add_materials", "add_textures", "add_skeleton", "add_anims"} |->
        CASE step = "open_name" -> "read_name"
          [] step = "read_name" -> "open_skel"
          [] step = "open_skel" -> "read_skel"
          [] step = "read_skel" -> "open_geom"
          [] step = "open_geom" -> "read_geom"
          [] step = "read_geom" -> "listdir"
          [] step = "listdir" -> "anims"
          [] step = "open_anim" -> "read_anim"
          [] step = "read_anim" -> "anims"
          [] step = "add_meshes" -> "add_materials"
          [] step = "add_materials" -> "add_textures"
          [] step = "add_textures" -> "add_skeleton"
          [] step = "add_skeleton" -> "add_anims"
          [] step = "add_anims" -> "return"]

\* a function that goes on with the next step after a call raised
step_result_swallowing(step, exc) ==
    [gen_pc |-> StepAfter[step], gen_result |-> NotRun]

\* how the function goes on after the call of a step returned (exc "None")
\* or raised: no statement of the function catches an exception
step_result(step, exc) ==
    IF exc = "None" THEN [gen_pc |-> StepAfter[step], gen_result |-> NotRun]
    ELSE [gen_pc |-> "raised", gen_result |-> Raised(exc)]

\* the files left open by a with-block that closed everything it was given
\* only when its body returned
with_exit_leaking(files, f, exc) ==
    IF exc = "None" THEN files \ {f} ELSE files

\* leaving `with open(...) as F:` closes F, whether the body returned or
\* raised
with_exit(files, f, exc) == files \ {f}

MaxDirEntries == 2

\* names os.listdir can return, and os.path.splitext(name)[0] of each
DirEntries == {"a.anim", "b.anim", "c.anim"}

Stem == ("a.anim" :> "a") @@ ("b.anim" :> "b") @@ ("c.anim" :> "c")

\* directory listings: no name twice
Listings ==
    {l \in SeqsUpTo(DirEntries, MaxDirEntries) :
        \A m, n \in DOMAIN l : m # n => l[m] # l[n]}

\* how a call can end: it returns, or it raises
CallOutcomes == {"None", "Exception"}

\* how open() can end
OpenOutcomes == {"None", "OSError"}

InitGenerate ==
    /\ CodecIdle
    /\ ReaderIdle
    /\ MatIdle
    /\ StripIdle
    /\ MeshIdle
    /\ SkelIdle
    /\ AnimIdle
    /\ ImportIdle
    /\ gen_pc = "open_name"
    /\ open_files = {}
    /\ readers_done = {}
    /\ anim_queue \in Listings
    /\ imported_animdata = {}
    /\ steps_done = <<>>
    /\ gen_result = NotRun

\* with open(filepath + '.name' / '.skel' / '.geom', 'rb') as F
GenOpen ==
    \E f \in {"name", "skel", "geom"} : \E exc \in OpenOutcomes :
        /\ gen_pc = "open_" \o f
        /\ open_files' = IF exc = "None" THEN open_files \cup {f} ELSE open_files
        /\ gen_pc' = step_result(gen_pc, exc).gen_pc
        /\ gen_result' = step_result(gen_pc, exc).gen_result
        /\ UNCHANGED <<readers_done, anim_queue, imported_animdata, steps_done>>
        /\ UNCHANGED <<meshVars, skelVars, animVars, importVars, codecVars, readerVars,
                       stripVars, matVars>>

\* the body of the with-block: the reader is built and read; the block is
\* left, by return or by exception, and the file is closed
GenRead ==
    \E f \in {"name", "skel", "geom"} : \E exc \in CallOutcomes :
        /\ gen_pc = "read_" \o f
        /\ open_files' = with_exit(open_files, f, exc)
        /\ readers_done' = IF exc = "None" THEN readers_done \cup {f} ELSE readers_done
        /\ gen_pc' = step_result(gen_pc, exc).gen_pc
        /\ gen_result' = step_result(gen_pc, exc).gen_result
        /\ UNCHANGED <<anim_queue, imported_animdata, steps_done>>
        /\ UNCHANGED <<meshVars, skelVars, animVars, importVars, codecVars, readerVars,
                       stripVars, matVars>>

\* os.listdir(directory)
GenListdir ==
    \E exc \in OpenOutcomes :
        /\ gen_pc = "listdir"
        /\ gen_pc' = step_result(gen_pc, exc).gen_pc
        /\ gen_result' = step_result(gen_pc, exc).gen_result
        /\ UNCHANGED <<open_files, readers_done, anim_queue, imported_animdata, steps_done>>
        /\ UNCHANGED <<meshVars, skelVars, animVars, importVars, codecVars, readerVars,
                       stripVars, matVars>>

\* the next directory entry is not read as an animation
GenAnimPassOver ==
    /\ gen_pc = "anims"
    /\ anim_queue # <<>>
    /\ anim_queue' = Tail(anim_queue)
    /\ UNCHANGED <<gen_pc, open_files, readers_done, imported_animdata, steps_done,
                   gen_result>>
    /\ UNCHANGED <<meshVars, skelVars, animVars, importVars, codecVars, readerVars,
                   stripVars, matVars>>

\* with open(afilepath, 'rb') as F
GenAnimOpen ==
    \E exc \in OpenOutcomes :
        /\ gen_pc = "anims"
        /\ anim_queue # <<>>
        /\ open_files' = IF exc = "None" THEN open_files \cup {Head(anim_queue)}
                         ELSE open_files
        /\ gen_pc' = step_result("open_anim", exc).gen_pc
        /\ gen_result' = step_result("open_anim", exc).gen_result
        /\ UNCHANGED <<readers_done, anim_queue, imported_animdata, steps_done>>
        /\ UNCHANGED <<meshVars, skelVars, animVars, importVars, codecVars, readerVars,
                       stripVars, matVars>>

\* the animation reader is built and read, the file is closed, the reader is
\* stored under the file's name without extension
GenAnimRead ==
    \E exc \in CallOutcomes :
        /\ gen_pc = "read_anim"
        /\ open_files' = with_exit(open_files, Head(anim_queue), exc)
        /\ imported_animdata' = IF exc = "None"
                                THEN imported_animdata \cup {Stem[Head(anim_queue)]}
                                ELSE imported_animdata
        /\ anim_queue' = IF exc = "None" THEN Tail(anim_queue) ELSE anim_queue
        /\ gen_pc' = step_result(gen_pc, exc).gen_pc
        /\ gen_result' = step_result(gen_pc, exc).gen_result
        /\ UNCHANGED <<readers_done, steps_done>>
        /\ UNCHANGED <<meshVars, skelVars, animVars, importVars, codecVars, readerVars,
                       stripVars, matVars>>

\* the directory entries are exhausted: model_data = IntermediateFormat()
GenAnimsDone ==
    /\ gen_pc = "anims"
    /\ anim_queue = <<>>
    /\ gen_pc' = "add_meshes"
    /\ UNCHANGED <<open_files, readers_done, anim_queue, imported_animdata, steps_done,
                   gen_result>>
    /\ UNCHANGED <<meshVars, skelVars, animVars, importVars, codecVars, readerVars,
                   stripVars, matVars>>

\* add_meshes, add_materials, add_textures, add_skeleton, add_anims
GenAssemble ==
    \E exc \in CallOutcomes :
        /\ gen_pc \in {"add_meshes", "add_materials", "add_textures", "add_skeleton",
                       "add_anims"}
        /\ steps_done' = IF exc = "None" THEN Append(steps_done, gen_pc) ELSE steps_done
        /\ gen_pc' = step_result(gen_pc, exc).gen_pc
        /\ gen_result' = step_result(gen_pc, exc).gen_result
        /\ UNCHANGED <<open_files, readers_done, anim_queue, imported_animdata>>
        /\ UNCHANGED <<meshVars, skelVars, animVars, importVars, codecVars, readerVars,
                       stripVars, matVars>>

\* return model_data
GenReturn ==
    /\ gen_pc = "return"
    /\ gen_pc' = "returned"
    /\ gen_result' = Returned("model_data")
    /\ UNCHANGED <<open_files, readers_done, anim_queue, imported_animdata, steps_done>>
    /\ UNCHANGED <<meshVars, skelVars, animVars, importVars, codecVars, readerVars,
                   stripVars, matVars>>

NextGenerate ==
    \/ GenOpen \/ GenRead \/ GenListdir \/ GenAnimPassOver \/ GenAnimOpen
    \/ GenAnimRead \/ GenAnimsDone \/ GenAssemble \/ GenReturn

SpecGenerate == InitGenerate /\ [][NextGenerate]_vars

\* C20: generate_intermediate_format_from_files returns a Model only after
\* all readers and all five assembly steps completed; once a reader, a file
\* open or an assembly step has raised, the call has ended with that
\* exception and no Model is returned.
C20_ModelOnlyAfterEveryStep ==
    /\ [](IsReturned(gen_result) =>
              /\ {"name", "skel", "geom"} \subseteq readers_done
              /\ anim_queue = <<>>
              /\ steps_done = <<"add_meshes", "add_materials", "add_textures",
                                "add_skeleton", "add_anims">>)
    /\ [][/\ (gen_pc' = "raised" <=> IsRaised(gen_result'))
          /\ (IsRaised(gen_result) => gen_result' = gen_result)]_vars

\* C20 witness: a Model was returned after two animation files were read.
C20_Witness ==
    /\ IsReturned(gen_result)
    /\ imported_animdata = {"a", "b"}
    /\ Len(steps_done) = 5

AssemblySteps ==
    {"add_meshes", "add_materials", "add_textures", "add_skeleton", "add_anims"}

\* C21: during generate_intermediate_format_from_files at most one file is
\* open at any time; a file is opened only when none is open; no file is
\* open when the first assembly step starts, nor later, nor after the call
\* ended by return or by exception (so a handle is closed also when its
\* reader raised); no assembly step changes the set of open files.
C21_OneHandleClosedBeforeAssembly ==
    /\ [](/\ Cardinality(open_files) <= 1
          /\ (gen_pc \in AssemblySteps \cup {"return", "returned", "raised"}
                  => open_files = {}))
    /\ [][/\ (open_files' \ open_files # {} => open_files = {})
          /\ (gen_pc \in AssemblySteps => open_files' = open_files)]_vars

\* C21 witness: the three readers and the animation reader of a.anim
\* returned, the animation reader of b.anim raised inside its with-block,
\* and no file is open.
C21_Witness ==
    /\ gen_result = Raised("Exception")
    /\ readers_done = {"name", "skel", "geom"}
    /\ imported_animdata = {"a"}
    /\ anim_queue = <<"b.anim">>
    /\ steps_done = <<>>
    /\ open_files = {}

-----------------------------------------------------------------------------
(* add_materials: one MaterialData per material record of the geometry     *)
(* file.  A material record is what the function reads of it: two header   *)
(* fields, the shader identifier, the list of material components (each a  *)
(* type tag and a payload) and the list of unknown components.             *)

\* MaterialData(); the two dicts are their items in insertion order
MaterialData ==
    [name |-> NoneValue, texture_id |-> NoneValue, toon_texture_id |-> NoneValue,
     rgba |-> NoneValue, specular_coeff |-> NoneValue, shader_hex |-> NoneValue,
     shader_uniforms |-> <<>>, unknown_data |-> <<>>]

\* a value held by an attribute that is None until it is assigned
Some(x) == [kind |-> "value", v |-> <<x>>]

DecimalDigit == <<"0", "1", "2", "3", "4", "5", "6", "7", "8", "9">>

\* str(n) of a natural number
RECURSIVE str_int(_)
str_int(n) ==
    IF n < 10 THEN DecimalDigit[n + 1]
    ELSE str_int(n \div 10) \o DecimalDigit[(n % 10) + 1]

\* "{:03d}".format(n): zero-padded to three characters, longer when n > 999
format_03d(n) ==
    IF n < 10 THEN "00" \o str_int(n)
    ELSE IF n < 100 THEN "0" \o str_int(n)
    ELSE str_int(n)

\* d[key] = value
DictSet(items, key, value) == DictFromPairs(items, <<<<key, value>>>>)

\* the name taken from the name table, as the assignment left in the comment
\* of line 155 would take it
material_name_from_table(names, filename, n) ==
    IF n < Len(names) THEN Returned(names[n + 1]) ELSE Raised("IndexError")

\* filename + "_mat_{:03d}".format(i)
material_name(names, filename, n) == Returned(filename \o "_mat_" \o format_03d(n))

\* one pass of the component loop in which an attribute that is already set
\* is left alone
apply_component_keeping_first(md, c) ==
    LET t == c.component_type
        set == CASE t = 50 /\ md.texture_id = NoneValue ->
                       [md EXCEPT !.texture_id = Some(c.data[1])]
                 [] t = 51 /\ md.rgba = NoneValue -> [md EXCEPT !.rgba = Some(c.data)]
                 [] t = 56 /\ md.specular_coeff = NoneValue ->
                       [md EXCEPT !.specular_coeff = Some(c.data[1])]
                 [] t = 72 /\ md.toon_texture_id = NoneValue ->
                       [md EXCEPT !.toon_texture_id = Some(c.data[1])]
                 [] OTHER -> md
    IN  [set EXCEPT !.unknown_data =
            DictSet(@, "type_1_component_" \o str_int(t), c.data)]

\* one pass of the loop over material.material_components: the if/elif chain
\* on component_type, then the entry of unknown_data
apply_component(md, c) ==
    LET t == c.component_type
        set == CASE t = 50 -> [md EXCEPT !.texture_id = Some(c.data[1])]
                 [] t = 51 -> [md EXCEPT !.rgba = Some(c.data)]
                 [] t = 56 -> [md EXCEPT !.specular_coeff = Some(c.data[1])]
                 [] t = 72 -> [md EXCEPT !.toon_texture_id = Some(c.data[1])]
                 [] OTHER -> md
    IN  [set EXCEPT !.unknown_data =
            DictSet(@, "type_1_component_" \o str_int(t), c.data)]

RECURSIVE apply_components(_, _)
apply_components(md, comps) ==
    IF comps = <<>> THEN md
    ELSE apply_components(apply_component(md, Head(comps)), Tail(comps))

\* one pass of the loop over material.unknown_data
apply_unknown_component(md, c) ==
    [md EXCEPT !.unknown_data =
        DictSet(@, "type_2_component_" \o str_int(c.maybe_component_type), c.data)]

RECURSIVE apply_unknown_components(_, _)
apply_unknown_components(md, comps) ==
    IF comps = <<>> THEN md
    ELSE apply_unknown_components(apply_unknown_component(md, Head(comps)), Tail(comps))

\* the body of the loop over imported_geomdata.material_data for the record
\* at index n: the outcome and the MaterialData appended by new_material()
add_material(names, filename, material, n) ==
    LET name == material_name(names, filename, n)
        named == [MaterialData EXCEPT !.name = IF IsReturned(name)
                                                THEN Some(Value(name)) ELSE NoneValue]
        headed == [named EXCEPT
                      !.unknown_data =
                          DictSet(DictSet(@, "unknown_0x00", material.unknown_0x00),
                                  "unknown_0x02", material.unknown_0x02),
                      !.shader_hex = Some(material.shader_hex)]
    IN  IF IsRaised(name) THEN [exc |-> name.exc, md |-> MaterialData]
        ELSE [exc |-> "None",
              md |-> apply_unknown_components(
                         apply_components(headed, material.material_components),
                         material.unknown_data)]

MaxMaterials == 2

MaxNames == 2

\* os.path.split(filepath)[-1] of the model being read
ModelFileName == "chr001"

\* a component record: its type tag and its payload
Component(t, payload) == [component_type |-> t, data |-> payload]

UnknownComponent(t, payload) == [maybe_component_type |-> t, data |-> payload]

\* a material record
Material(u0, u2, comps, unknown) ==
    [unknown_0x00 |-> u0, unknown_0x02 |-> u2, shader_hex |-> "00000001_00000002",
     material_components |-> comps, unknown_data |-> unknown]

\* material records: without components; with one component of each of the
\* four known tags; with a tag repeated; with other tags only; mixed
MaterialSamples ==
    {Material(0, 0, <<>>, <<>>),
     Material(1, 2, <<Component(50, <<3, 0, 0>>), Component(51, <<1, 2, 3, 4>>),
                      Component(56, <<5>>), Component(72, <<6, 0, 0>>)>>, <<>>),
     Material(1, 0, <<Component(50, <<3, 0, 0>>), Component(50, <<4, 0, 0>>)>>, <<>>),
     Material(0, 2, <<Component(54, <<9>>), Component(53, <<2, 0, 0>>)>>,
              <<UnknownComponent(160, <<1, 2>>)>>),
     Material(3, 3, <<Component(72, <<6, 0, 0>>), Component(54, <<9>>),
                      Component(72, <<7, 0, 0>>)>>,
              <<UnknownComponent(161, <<0, 0>>), UnknownComponent(160, <<1, 1>>)>>),
     Material(2, 1, <<Component(51, <<1, 2, 3, 4>>), Component(56, <<8>>),
                      Component(51, <<0, 0, 0, 1>>)>>,
              <<UnknownComponent(160, <<1, 2>>), UnknownComponent(160, <<3, 4>>)>>)}

\* the material names of the name table: any count, whatever the number of
\* material records
NameLists == {[k \in 1..n |-> "name" \o str_int(k)] : n \in 0..MaxNames}

InitMaterials ==
    /\ CodecIdle
    /\ ReaderIdle
    /\ StripIdle
    /\ MeshIdle
    /\ SkelIdle
    /\ AnimIdle
    /\ ImportIdle
    /\ GenIdle
    /\ material_names \in NameLists
    /\ material_data \in SeqsUpTo(MaterialSamples, MaxMaterials)
    /\ materials = <<>>
    /\ model_unknown_data = <<>>
    /\ material_i = 0
    /\ materials_pc = "start"

\* model_data.unknown_data['material names'] = imported_namedata.material_names
AddMaterialsStart ==
    /\ materials_pc = "start"
    /\ model_unknown_data' = DictSet(model_unknown_data, "material names", material_names)
    /\ materials_pc' = "loop"
    /\ UNCHANGED <<material_names, material_data, materials, material_i>>
    /\ UNCHANGED <<meshVars, skelVars, animVars, importVars, genVars, codecVars,
                   readerVars, stripVars>>

\* one pass of the loop over the material records
AddMaterial ==
    /\ materials_pc = "loop"
    /\ material_i < Len(material_data)
    /\ LET r == add_material(material_names, ModelFileName,
                             material_data[material_i + 1], material_i)
       IN  /\ materials' = Append(materials, r.md)
           /\ material_i' = IF r.exc = "None" THEN material_i + 1 ELSE material_i
           /\ materials_pc' = IF r.exc = "None" THEN "loop" ELSE r.exc
    /\ UNCHANGED <<material_names, material_data, model_unknown_data>>
    /\ UNCHANGED <<meshVars, skelVars, animVars, importVars, genVars, codecVars,
                   readerVars, stripVars>>

\* the records are exhausted: add_materials returns
AddMaterialsReturn ==
    /\ materials_pc = "loop"
    /\ material_i = Len(material_data)
    /\ materials_pc' = "returned"
    /\ UNCHANGED <<material_names, material_data, materials, model_unknown_data,
                   material_i>>
    /\ UNCHANGED <<meshVars, skelVars, animVars, importVars, genVars, codecVars,
                   readerVars, stripVars>>

NextMaterials == AddMaterialsStart \/ AddMaterial \/ AddMaterialsReturn

SpecMaterials == InitMaterials /\ [][NextMaterials]_vars

\* the three-character decimal text of the indices the material loop reaches
ThreeDigits == <<"000", "001", "002", "003">>

TagPositions(material, t) ==
    {k \in DOMAIN material.material_components :
        material.material_components[k].component_type = t}

\* the payload of the last component with tag t
LastPayload(material, t) ==
    material.material_components[
        CHOOSE k \in TagPositions(material, t) :
            \A n \in TagPositions(material, t) : n <= k].data

-----------------------------------------------------------------------------
(* The Model during the skeleton import.                                   *)

Materialized(q) ==
    \A n \in 1..(q - 1) : skeleton.bone_relations[n][1] # skeleton.bone_relations[q][1]

-----------------------------------------------------------------------------
(* add_anims: which bitmask and which values a bone gets, and which blocks *)
(* are expanded.                                                           *)

\* the number of '1's in the bitmasks of the bones before place p of a
\* channel whose first bitmask is the (skipped + 1)-th of the block
RECURSIVE OnesBefore(_, _, _, _, _)
OnesBefore(substructure, c, span, skipped, p) ==
    IF p <= 1 THEN 0
    ELSE OnesBefore(substructure, c, span, skipped, p - 1)
             + Len(ExpectedMaskFrames(substructure, c, span, skipped + p - 1))

\* what C24 says one pass over a keyframe block does to the curve of the
\* bone at place p of a channel's keyframe bone list: its frames get the
\* boundary frame and the frames of bitmask skipped + p; its values get the
\* boundary value and the next values of the channel's stream, one per '1'
ChunkAndValuesInOrder(frames, values, frames2, values2, key_idxs, boundary, stream,
                      skipped) ==
    \A p \in DOMAIN key_idxs :
        LET b == key_idxs[p]
            c == ar.keyframe_counts[block_k + 1][1]
            span == ar.keyframe_counts[block_k + 1][2]
            sub == ar.unknown_data_8[block_k + 1]
            ones == Len(ExpectedMaskFrames(sub, c, span, skipped + p))
            before == OnesBefore(sub, c, span, skipped, p)
            first == IF p <= Len(boundary) THEN <<boundary[p]>> ELSE <<>>
        IN  b < ar.num_bones =>
                /\ frames2[b] = frames[b] \o ExpectedBlockFrames(boundary, p, skipped)
                /\ values2[b] = values[b] \o first \o Slice(stream, before, before + ones)
                /\ Len(values2[b]) = Len(values[b]) + Len(first) + ones

\* C24: in a keyframe block with R changed-rotation, L changed-location and
\* S changed-scale bones, bitmask chunk i (0-based, file order) goes to
\* rotation bone i for i < R, to location bone i - R for R <= i < R + L, to
\* scale bone i - R - L for R + L <= i < R + L + S, each chunk to one bone
\* and none skipped; each channel's value stream is consumed in order, as
\* many values per bone as its mask has '1's.
C24_ChunksAndValuesInFileOrder ==
    [][(anim_pc = "blocks" /\ block_k' = block_k + 1) =>
          LET sub == ar.unknown_data_8[block_k + 1]
              R == Len(ar.keyframe_rotations_bone_idxs)
              L == Len(ar.keyframe_locations_bone_idxs)
          IN  /\ ChunkAndValuesInOrder(
                     fcurves.rotation_fcurves_frames, fcurves.rotation_fcurves_values,
                     fcurves'.rotation_fcurves_frames, fcurves'.rotation_fcurves_values,
                     ar.keyframe_rotations_bone_idxs, sub.unknown_data_1,
                     sub.unknown_data_6, 0)
              /\ ChunkAndValuesInOrder(
                     fcurves.location_fcurves_frames, fcurves.location_fcurves_values,
                     fcurves'.location_fcurves_frames, fcurves'.location_fcurves_values,
                     ar.keyframe_locations_bone_idxs, sub.unknown_data_2,
                     sub.unknown_data_7, R)
              /\ ChunkAndValuesInOrder(
                     fcurves.scale_fcurves_frames, fcurves.scale_fcurves_values,
                     fcurves'.scale_fcurves_frames, fcurves'.scale_fcurves_values,
                     ar.keyframe_scales_bone_idxs, sub.unknown_data_3,
                     sub.unknown_data_8, R + L)]_vars

\* C28: after add_anims, every curve of every bone has as many values as
\* frames.
C28_CurvesPairFramesWithValues ==
    anim_pc = "done" =>
        \A curve \in CurvesOf(ad) : Len(curve.frames) = Len(curve.values)


\* the frames that block k (from 1) gives to the bone at place p of a
\* channel's keyframe bone list; the channel's boundary values are the field
\* `boundary` of the substructure, its bitmasks follow `skipped` others
FramesOfBlock(k, boundary, p, skipped) ==
    LET c == ar.keyframe_counts[k][1]
        span == ar.keyframe_counts[k][2]
        sub == ar.unknown_data_8[k]
    IN  (IF p <= Len(sub[boundary]) THEN <<c>> ELSE <<>>)
            \o ExpectedMaskFrames(sub, c, span, skipped + p)

\* the frames of blocks 1..n, in block order
RECURSIVE FramesOfBlocks(_, _, _, _)
FramesOfBlocks(n, boundary, p, skipped) ==
    IF n = 0 THEN <<>>
    ELSE FramesOfBlocks(n - 1, boundary, p, skipped) \o FramesOfBlock(n, boundary, p, skipped)

\* frame 0, once for every mention of bone b in an initial-pose list
InitialFrames(bone_idxs, b) ==
    [k \in 1..Cardinality({q \in DOMAIN bone_idxs : bone_idxs[q] = b}) |-> 0]

\* the curves of a channel hold the initial pose and the frames of the first
\* n blocks, whatever the later entries and substructures are
CurvesHoldFirstBlocks(curves, init_idxs, key_idxs, n, boundary, skipped) ==
    \A b \in DOMAIN curves :
        IF \E p \in DOMAIN key_idxs : key_idxs[p] = b
        THEN \A p \in DOMAIN key_idxs :
                 key_idxs[p] = b =>
                     curves[b].frames = InitialFrames(init_idxs, b)
                                            \o FramesOfBlocks(n, boundary, p, skipped)
        ELSE curves[b].frames = InitialFrames(init_idxs, b)

\* C29: add_anims expands exactly the first min(len(keyframe_counts), number
\* of substructures - 1) blocks (none when the reader returned no
\* substructure), the k-th (cumulative frame, span) entry with the k-th
\* substructure: a finished clip's curves hold the initial pose and the
\* samples of these blocks, and nothing of the last substructure.
C29_LastSubstructureIsNotExpanded ==
    anim_pc = "done" =>
        LET subs == Len(ar.unknown_data_8)
            counts == Len(ar.keyframe_counts)
            n == IF subs = 0 THEN 0
                 ELSE IF counts < subs - 1 THEN counts ELSE subs - 1
            R == Len(ar.keyframe_rotations_bone_idxs)
            L == Len(ar.keyframe_locations_bone_idxs)
        IN  /\ block_k = n
            /\ CurvesHoldFirstBlocks(ad.rotations, ar.initial_pose_rotations_bone_idxs,
                   ar.keyframe_rotations_bone_idxs, n, "unknown_data_1", 0)
            /\ CurvesHoldFirstBlocks(ad.locations, ar.initial_pose_locations_bone_idxs,
                   ar.keyframe_locations_bone_idxs, n, "unknown_data_2", R)
            /\ CurvesHoldFirstBlocks(ad.scales, ar.initial_pose_scales_bone_idxs,
                   ar.keyframe_scales_bone_idxs, n, "unknown_data_3", R + L)

\* C29 witness: the reader returned two count entries and two substructures,
\* the last with bitmasks and boundary values; one block was expanded and
\* the rotation curve of bone 0 holds the first block only.
C29_Witness ==
    /\ anim_pc = "done"
    /\ Len(ar.keyframe_counts) = 2
    /\ Len(ar.unknown_data_8) = 2
    /\ ar.unknown_data_8[2].unknown_data_5 # <<>>
    /\ ar.keyframe_counts[1] = <<10, 4>>
    /\ ar.unknown_data_8[1].unknown_data_5 = <<>>
    /\ ar.keyframe_rotations_bone_idxs = <<0>>
    /\ ar.initial_pose_rotations_bone_idxs = <<>>
    /\ block_k = 1
    /\ ad.rotations[0].frames = <<10>>


-----------------------------------------------------------------------------
(* MaterialReader: read() followed by write().                             *)

\* the reader holds the text of the shader name and the two maps
Interpreted(obj) ==
    /\ obj.shader_hex.kind = "str"
    /\ obj.shader_uniforms.kind = "dict"
    /\ obj.unknown_data.kind = "dict"

\* the reader holds three byte strings
Raw(obj) ==
    /\ obj.shader_hex.kind = "bytes"
    /\ obj.shader_uniforms.kind = "bytes"
    /\ obj.unknown_data.kind = "bytes"

\* the length of the block read() consumed; write() leaves these bytes alone
ReadBlockLen == 24 + 24 * io_stream[21] + 24 * io_stream[22]

\* the block a write() that followed read() put on the stream
EmittedBlock == Slice(io_stream, ReadBlockLen, Len(io_stream))

\* C26: after read() and then write(), both returning, the emitted block has
\* a shader-uniform section of exactly 24 * num_shader_uniforms bytes and a
\* component section of exactly 24 * num_unknown_data bytes, the counts
\* being those written in the emitted header.
C26_EmittedSectionsMatchHeaderCounts ==
    (reader_calls = <<"read", "write">> /\ result.exc = "None") =>
        /\ Len(self.shader_uniforms.v) = 24 * EmittedBlock[21]
        /\ Len(self.unknown_data.v) = 24 * EmittedBlock[22]
        /\ Len(EmittedBlock) = 24 + 24 * EmittedBlock[21] + 24 * EmittedBlock[22]

\* C27: a returned read() leaves the reader interpreted; a write() that
\* returns started from the interpreted state and leaves the reader raw; a
\* write() that directly follows a write() raises and leaves the stream as
\* it was.
C27_ReaderAlternatesInterpretedAndRaw ==
    /\ [](reader_calls = <<"read">> /\ result.exc = "None" => Interpreted(self))
    /\ [][/\ (Len(reader_calls') > Len(reader_calls)
                 /\ reader_calls'[Len(reader_calls')] = "write"
                 /\ result'.exc = "None")
              => (Interpreted(self) /\ Raw(self') /\ io_stream' # io_stream)
          /\ (Len(reader_calls') > Len(reader_calls)
                 /\ reader_calls # <<>>
                 /\ reader_calls[Len(reader_calls)] = "write"
                 /\ reader_calls'[Len(reader_calls')] = "write")
              => (IsRaised(result') /\ io_stream' = io_stream /\ io_pos' = io_pos)
       ]_vars

\* read() returned, write() returned and left the reader raw, and the next
\* write() raised
C27_Witness ==
    /\ reader_calls = <<"read", "write", "write">>
    /\ result.exc = "AttributeError"
    /\ Raw(self)
    /\ Len(io_stream) > ReadBlockLen

====
